---- MODULE Spec2Model ----
(***************************************************************************)
(* Model of the tool-calling orchestration and streaming pipeline of the   *)
(* Grafana SM3 chat plugin:                                                *)
(*   - pkg/agent ConversationMemory (bounded, lock-protected message log), *)
(*   - pkg/llm StreamChat (the producer goroutine of one streaming turn),  *)
(*   - pkg/plugin handleChatStream / sendSSE (the consumer of the turn).   *)
(* Texts are Go strings: TLA+ strings where only length and concatenation  *)
(* matter, sequences of one-character strings where the text is parsed.    *)
(***************************************************************************)
EXTENDS Integers, Sequences, FiniteSets, TLC

\* ------------------------------------------------------------------ bounds
\* goroutines that call into one ConversationMemory
NumThreads == 2
\* calls (AddMessage, GetMessages, Clear, a caller's write to a snapshot)
\* started in one behaviour of the memory specification
MaxOps == 4
\* responses the provider stream yields in one turn before it ends
MaxRecv == 3

\* the width of an int in the model, and the longest slice paginated
IntBits == 5
MaxItems == 3

\* DiscoverTools calls started on one client in one behaviour
MaxDiscover == 3

\* --------------------------------------------------------------- constants
DefaultMaxMessages == 100
DefaultMaxCharacters == 100000

VARIABLES
    \* ConversationMemory
    heap,           \* backing arrays of all []Message slices, by address
    messages,       \* m.messages: a slice header [arr, off, len]
    totalChars,     \* m.totalChars
    maxMessages,    \* m.maxMessages
    maxCharacters,  \* m.maxCharacters
    mu,             \* m.mu: [writer |-> thread or 0, readers |-> set of threads]
    pc,             \* per goroutine: its position in the method it runs
    arg,            \* per goroutine: the Message its AddMessage call carries
    result,         \* per goroutine: the slice its last GetMessages returned
    opsLeft,        \* calls that may still start
    \* history (not program state)
    appended,       \* messages appended since the last Clear, in append order
    lastCommitted,  \* the stored sequence when the write lock was last released
    \* StreamChat: the producer goroutine of the turn
    spc,            \* its position
    chunks,         \* the content of the channel
    closed,         \* close(chunks) has run
    fullContent,    \* fullContent
    toolCalls,      \* toolCalls
    delta,          \* the delta in hand (for a stream error: its text)
    ti,             \* the position of the range loop over toolCalls
    recvLeft,       \* responses the stream may still yield
    \* handleChatStream: the consumer of the turn
    hpc,            \* its position
    fullResponse,   \* fullResponse
    sent,           \* the responses given to sender.Send, in order
    \* history (not program state)
    emitted,        \* every chunk sent on the channel, in order
    received,       \* every result of stream.Recv(), in order
    forwarded,      \* every chunk handed to sendSSE, in order
    executed,       \* what executeTool returned for each of them, in order
    \* the pagination engine of a tool provider
    pageArgs,       \* the call: [items, count, offset, maxCount]
    validated,      \* what ValidatePaginationParams returned
    paginated,      \* what PaginateResults returned, or its panic
    pagePc,         \* the position of the call
    \* one mcp.Client and the goroutines that call DiscoverTools on it
    serverType,     \* c.serverType
    tools,          \* c.tools: [ptr, len]
    dpc,            \* per goroutine: its position in DiscoverTools
    dresp,          \* per goroutine: result.Result.Tools
    discoverLeft,   \* calls that may still start
    \* history (not program state)
    began,          \* per goroutine: the returns made before its call started
    overlapped,     \* a call has started while another was running
    listRequests,   \* every tools/list request sent, with its answer, in order
    returns,        \* every return of DiscoverTools, in order
    \* executeTool and InvokeTool
    mcpClients,     \* instance.mcpClients: the server types that connected
    ipc,            \* the position of the call
    ivk,            \* the call: its client, tool name and arguments
    wire,           \* the tools/call requests sent, in order
    response,       \* what came back for the request
    ret,            \* what InvokeTool returned
    execRet,        \* what executeTool returned
    \* history (not program state)
    rewritten,      \* normalized as the loop over args left it
    \* buildContextualMessage
    userMessage,    \* the message of the request
    dashboard,      \* the *DashboardContext of the request, <<>> for nil
    contextual,     \* what buildContextualMessage returned, as its pieces
    ctxPc,          \* the position of the call
    \* a provider server: its limiter and one tool call at a time
    serverName,     \* which provider server this is
    rateLimit,      \* DefaultRateLimitRPS and DefaultRateLimitBurst
    limiter,        \* s.limiter: <<>> for nil, else [limit, burst, tokens]
    invocation,     \* the tool call being handled
    callPc,         \* the position of its handler
    toolResult,     \* what the handler returned
    callsLeft,      \* calls that may still arrive
    \* history (not program state)
    upstream,       \* the ids of the calls that reached s.client, in order
    decisions,      \* what enforceRateLimit decided for each call, in order
    \* createInstance
    env,            \* the settings of the instance and the state of its providers
    remaining,      \* the configured servers the loop has yet to visit
    cpc,            \* the position of createInstance
    created,        \* what createInstance returned
    mcpTypes,       \* the keys of the client map, as collected for the prompt
    managerTools,   \* the tools the agent manager was built with
    \* history (not program state)
    requests,       \* every completion request made of the provider, in order
    \* a client that pages through a slice
    walk,           \* [items, count, offset]: the slice and the call to make next
    windows,        \* what PaginateResults returned, page after page
    walkPc,         \* the position of the client
    \* Manager.sessionMemories and the goroutines of concurrent turns
    sessionMemories,\* m.sessionMemories: session id -> memory
    memories,       \* every ConversationMemory created: its messages
    managerMu,      \* m.mu: the goroutine that holds it, or 0
    tpc,            \* per goroutine: its position
    turn,           \* per goroutine: its call, and its local variables
    rendered,       \* per goroutine: what buildMessages returned to it
    turnsLeft,      \* calls that may still start
    \* history (not program state)
    handed,         \* every (session id, memory) getOrCreateMemory returned
    \* Plugin.instances and the goroutines of concurrent requests
    instances,      \* p.instances: org id -> instance
    pluginMu,       \* p.mu: its writer (or 0) and its readers
    gpc,            \* per goroutine: its position in getInstance
    lookup,         \* per goroutine: instanceID, instance, exists
    got,            \* per goroutine: what getInstance returned to it
    getsLeft,       \* calls that may still start
    \* history (not program state)
    stores          \* every write of p.instances, in order

memVars == <<heap, messages, totalChars, maxMessages, maxCharacters, mu, pc,
             arg, result, opsLeft, appended, lastCommitted>>

ProducerVars == <<spc, chunks, closed, emitted, fullContent, toolCalls, delta,
                  ti, recvLeft, received>>

HandlerVars == <<hpc, fullResponse, sent, forwarded, executed>>

streamVars == <<spc, chunks, closed, fullContent, toolCalls, delta, ti, recvLeft,
                hpc, fullResponse, sent, emitted, received, forwarded,
                executed>>

pageVars == <<pageArgs, validated, paginated, pagePc>>

discoverVars == <<serverType, tools, dpc, dresp, discoverLeft, began, overlapped,
                  listRequests, returns>>

invokeVars == <<mcpClients, ipc, ivk, wire, response, ret, execRet, rewritten>>

callVars == <<ipc, ivk, wire, response, ret, execRet, rewritten>>

contextVars == <<userMessage, dashboard, contextual, ctxPc>>

serverVars == <<serverName, rateLimit, limiter, invocation, callPc, toolResult,
                callsLeft, upstream, decisions>>

instanceVars == <<env, remaining, cpc, created, mcpTypes, managerTools>>

walkVars == <<walk, windows, walkPc>>

sessionVars == <<sessionMemories, memories, managerMu, tpc, turn, rendered,
                 turnsLeft, handed>>

pluginVars == <<instances, pluginMu, gpc, lookup, got, getsLeft, stores>>

laterVars == <<walkVars, sessionVars, pluginVars>>

toolVars == <<pageVars, discoverVars, invokeVars, contextVars, serverVars,
              instanceVars, laterVars>>

notPageVars == <<memVars, streamVars, discoverVars, invokeVars, contextVars,
                 serverVars, instanceVars, laterVars,
                 requests>>

notDiscoverVars == <<memVars, streamVars, pageVars, invokeVars, contextVars,
                     serverVars, instanceVars, laterVars,
                     requests>>

notInvokeVars == <<memVars, streamVars, pageVars, discoverVars, contextVars,
                   serverVars, instanceVars, laterVars,
                   requests>>

notContextVars == <<memVars, streamVars, pageVars, discoverVars, invokeVars,
                    serverVars, instanceVars, laterVars,
                    requests>>

notServerVars == <<memVars, streamVars, pageVars, discoverVars, invokeVars,
                   contextVars, instanceVars, laterVars,
                   requests>>

notInstanceVars == <<memVars, streamVars, pageVars, discoverVars, callVars,
                     contextVars, serverVars, laterVars,
                     requests>>

earlierVars == <<memVars, streamVars, pageVars, discoverVars, invokeVars,
                 contextVars, serverVars, instanceVars, requests>>

notWalkVars == <<earlierVars, sessionVars, pluginVars>>

notSessionVars == <<earlierVars, walkVars, pluginVars>>

notPluginVars == <<earlierVars, walkVars, sessionVars>>

vars == <<memVars, streamVars, toolVars, requests>>

Threads == 1..NumThreads

\* ------------------------------------------------------ Go slices of Message
Message(role, content) == [Role |-> role, Content |-> content]

ZeroMessage == Message("", "")

\* make([]Message, 0): length 0, capacity 0, no backing array
EmptySlice == [arr |-> 0, off |-> 0, len |-> 0]

Cap(h, s) == IF s.arr = 0 THEN 0 ELSE Len(h[s.arr]) - s.off

\* the elements a slice denotes
View(h, s) == [i \in 1..s.len |-> h[s.arr][s.off + i]]

Zeros(n) == [i \in 1..n |-> ZeroMessage]

\* append(s, msg): in place when capacity is left, else a new array of twice
\* the capacity holding a copy; returns the new heap and the new header
GoAppend(h, s, msg) ==
    IF s.len < Cap(h, s)
    THEN [heap |-> [h EXCEPT ![s.arr][s.off + s.len + 1] = msg],
          slice |-> [s EXCEPT !.len = s.len + 1]]
    ELSE LET newcap == IF Cap(h, s) = 0 THEN 1 ELSE 2 * Cap(h, s)
             array == View(h, s) \o <<msg>> \o Zeros(newcap - s.len - 1)
         IN [heap |-> Append(h, array),
             slice |-> [arr |-> Len(h) + 1, off |-> 0, len |-> s.len + 1]]

DropNewest(s) == [s EXCEPT !.len = s.len - 1]

\* s[1:]
Tail1(s) == [s EXCEPT !.off = s.off + 1, !.len = s.len - 1]

GoCopyAliased(h, s) == [heap |-> h, slice |-> s]

\* result := make([]Message, len(s)); copy(result, s)
GoCopy(h, s) ==
    IF s.len = 0
    THEN [heap |-> h, slice |-> EmptySlice]
    ELSE [heap |-> Append(h, View(h, s)),
          slice |-> [arr |-> Len(h) + 1, off |-> 0, len |-> s.len]]

RECURSIVE SumChars(_)
SumChars(ms) == IF ms = <<>> THEN 0 ELSE Len(Head(ms).Content) + SumChars(Tail(ms))

\* ------------------------------------------------------- ConversationMemory
\* the (role, content) pairs AddMessage is called with
AddInputs == {Message("user", "a"), Message("assistant", "bbb"), Message("user", "")}
ConfigValues == {-1, 0, 2}
ConfigChars == {-1, 0, 2}

\* NewConversationMemoryWithConfig: 0 selects the default limit
NewMaxMessages(c) == IF c = 0 THEN DefaultMaxMessages ELSE c
NewMaxCharacters(c) == IF c = 0 THEN DefaultMaxCharacters ELSE c

\* the fields NewConversationMemoryWithConfig sets whatever the config
MemFields ==
    /\ heap = <<>>
    /\ messages = EmptySlice
    /\ totalChars = 0
    /\ mu = [writer |-> 0, readers |-> {}]
    /\ pc = [t \in Threads |-> "idle"]
    /\ arg = [t \in Threads |-> ZeroMessage]
    /\ result = [t \in Threads |-> EmptySlice]
    /\ opsLeft = MaxOps
    /\ appended = <<>>
    /\ lastCommitted = <<>>

MemInit ==
    /\ MemFields
    /\ \E c \in ConfigValues : maxMessages = NewMaxMessages(c)
    /\ \E c \in ConfigChars : maxCharacters = NewMaxCharacters(c)

\* sync.RWMutex: Lock waits for no writer and no reader, RLock for no writer
CanLock == mu.writer = 0 /\ mu.readers = {}

CanRLockUnguarded == TRUE

CanRLock == mu.writer = 0

\* the loop condition of trimToMessageLimit, behind its "no limit" return
OverMessageLimit(s) == maxMessages > 0 /\ s.len > maxMessages

OverCharacterLimitEvictsNewest(s, total) ==
    maxCharacters > 0 /\ total > maxCharacters /\ s.len > 0

\* the loop condition of trimToCharacterLimit, behind its "no limit" return
OverCharacterLimit(s, total) ==
    maxCharacters > 0 /\ total > maxCharacters /\ s.len > 1

\* the body of both loops: removed := m.messages[0];
\* m.messages = m.messages[1:]; m.totalChars -= len(removed.Content)
RemoveOldest(h, m) ==
    [slice |-> Tail1(m.slice),
     total |-> m.total - Len(View(h, m.slice)[1].Content)]

\* trimToMessageLimit and trimToCharacterLimit run to their end
RECURSIVE TrimmedToMessageLimit(_, _)
TrimmedToMessageLimit(h, m) ==
    IF OverMessageLimit(m.slice)
    THEN TrimmedToMessageLimit(h, RemoveOldest(h, m))
    ELSE m

RECURSIVE TrimmedToCharacterLimit(_, _)
TrimmedToCharacterLimit(h, m) ==
    IF OverCharacterLimit(m.slice, m.total)
    THEN TrimmedToCharacterLimit(h, RemoveOldest(h, m))
    ELSE m

\* AddMessage from Lock to Unlock, for a caller no other goroutine competes
\* with: the heap, m.messages and m.totalChars it leaves
AddMessageDone(h, s, total, msg) ==
    LET a == GoAppend(h, s, msg)
        m == TrimmedToCharacterLimit(a.heap,
                 TrimmedToMessageLimit(a.heap,
                     [slice |-> a.slice, total |-> total + Len(msg.Content)]))
    IN [heap |-> a.heap, slice |-> m.slice, total |-> m.total]

\* AddMessage, entry: m.mu.Lock()
AddLock(t) ==
    /\ pc[t] = "idle" /\ opsLeft > 0
    /\ CanLock
    /\ \E m \in AddInputs : arg' = [arg EXCEPT ![t] = m]
    /\ mu' = [mu EXCEPT !.writer = t]
    /\ pc' = [pc EXCEPT ![t] = "add_append"]
    /\ opsLeft' = opsLeft - 1
    /\ UNCHANGED <<heap, messages, totalChars, maxMessages, maxCharacters,
                   result, appended, lastCommitted>>
    /\ UNCHANGED <<streamVars, toolVars, requests>>

\* m.messages = append(m.messages, newMsg); m.totalChars += msgChars
AddAppend(t) ==
    /\ pc[t] = "add_append"
    /\ LET a == GoAppend(heap, messages, arg[t])
       IN /\ heap' = a.heap
          /\ messages' = a.slice
    /\ totalChars' = totalChars + Len(arg[t].Content)
    /\ appended' = Append(appended, arg[t])
    /\ pc' = [pc EXCEPT ![t] = "add_trim_messages"]
    /\ UNCHANGED <<maxMessages, maxCharacters, mu, arg, result, opsLeft,
                   lastCommitted>>
    /\ UNCHANGED <<streamVars, toolVars, requests>>

\* trimToMessageLimit: one test of its loop, and the removal if it passes
TrimToMessageLimit(t) ==
    /\ pc[t] = "add_trim_messages"
    /\ IF OverMessageLimit(messages)
       THEN /\ LET m == RemoveOldest(heap, [slice |-> messages, total |-> totalChars])
               IN messages' = m.slice /\ totalChars' = m.total
            /\ pc' = pc
       ELSE /\ pc' = [pc EXCEPT ![t] = "add_trim_characters"]
            /\ UNCHANGED <<messages, totalChars>>
    /\ UNCHANGED <<heap, maxMessages, maxCharacters, mu, arg, result, opsLeft,
                   appended, lastCommitted>>
    /\ UNCHANGED <<streamVars, toolVars, requests>>

\* trimToCharacterLimit: one test of its loop, and the removal if it passes
TrimToCharacterLimit(t) ==
    /\ pc[t] = "add_trim_characters"
    /\ IF OverCharacterLimit(messages, totalChars)
       THEN /\ LET m == RemoveOldest(heap, [slice |-> messages, total |-> totalChars])
               IN messages' = m.slice /\ totalChars' = m.total
            /\ pc' = pc
       ELSE /\ pc' = [pc EXCEPT ![t] = "add_unlock"]
            /\ UNCHANGED <<messages, totalChars>>
    /\ UNCHANGED <<heap, maxMessages, maxCharacters, mu, arg, result, opsLeft,
                   appended, lastCommitted>>
    /\ UNCHANGED <<streamVars, toolVars, requests>>

\* AddMessage, exit: the deferred m.mu.Unlock()
AddUnlock(t) ==
    /\ pc[t] = "add_unlock"
    /\ mu' = [mu EXCEPT !.writer = 0]
    /\ lastCommitted' = View(heap, messages)
    /\ arg' = [arg EXCEPT ![t] = ZeroMessage]
    /\ pc' = [pc EXCEPT ![t] = "idle"]
    /\ UNCHANGED <<heap, messages, totalChars, maxMessages, maxCharacters,
                   result, opsLeft, appended>>
    /\ UNCHANGED <<streamVars, toolVars, requests>>

\* GetMessages, entry: m.mu.RLock()
GetRLock(t) ==
    /\ pc[t] = "idle" /\ opsLeft > 0
    /\ CanRLock
    /\ mu' = [mu EXCEPT !.readers = mu.readers \cup {t}]
    /\ pc' = [pc EXCEPT ![t] = "get_copy"]
    /\ opsLeft' = opsLeft - 1
    /\ UNCHANGED <<heap, messages, totalChars, maxMessages, maxCharacters, arg,
                   result, appended, lastCommitted>>
    /\ UNCHANGED <<streamVars, toolVars, requests>>

\* result := make([]Message, len(m.messages)); copy(result, m.messages)
GetCopy(t) ==
    /\ pc[t] = "get_copy"
    /\ LET c == GoCopy(heap, messages)
       IN /\ heap' = c.heap
          /\ result' = [result EXCEPT ![t] = c.slice]
    /\ pc' = [pc EXCEPT ![t] = "get_unlock"]
    /\ UNCHANGED <<messages, totalChars, maxMessages, maxCharacters, mu, arg,
                   opsLeft, appended, lastCommitted>>
    /\ UNCHANGED <<streamVars, toolVars, requests>>

\* GetMessages, exit: the deferred m.mu.RUnlock(), result goes to the caller
GetRUnlock(t) ==
    /\ pc[t] = "get_unlock"
    /\ mu' = [mu EXCEPT !.readers = mu.readers \ {t}]
    /\ pc' = [pc EXCEPT ![t] = "idle"]
    /\ UNCHANGED <<heap, messages, totalChars, maxMessages, maxCharacters, arg,
                   result, opsLeft, appended, lastCommitted>>
    /\ UNCHANGED <<streamVars, toolVars, requests>>

\* Clear, entry: m.mu.Lock()
ClearLock(t) ==
    /\ pc[t] = "idle" /\ opsLeft > 0
    /\ CanLock
    /\ mu' = [mu EXCEPT !.writer = t]
    /\ pc' = [pc EXCEPT ![t] = "clear_reset"]
    /\ opsLeft' = opsLeft - 1
    /\ UNCHANGED <<heap, messages, totalChars, maxMessages, maxCharacters, arg,
                   result, appended, lastCommitted>>
    /\ UNCHANGED <<streamVars, toolVars, requests>>

\* the mutant: the counter is left as it was
ClearKeepsTotal(t) ==
    /\ pc[t] = "clear_reset"
    /\ messages' = EmptySlice
    /\ appended' = <<>>
    /\ mu' = [mu EXCEPT !.writer = 0]
    /\ lastCommitted' = <<>>
    /\ pc' = [pc EXCEPT ![t] = "idle"]
    /\ UNCHANGED <<heap, totalChars, maxMessages, maxCharacters, arg, result,
                   opsLeft>>
    /\ UNCHANGED <<streamVars, toolVars, requests>>

\* m.messages = make([]Message, 0); m.totalChars = 0; deferred m.mu.Unlock()
ClearReset(t) ==
    /\ pc[t] = "clear_reset"
    /\ messages' = EmptySlice
    /\ totalChars' = 0
    /\ appended' = <<>>
    /\ mu' = [mu EXCEPT !.writer = 0]
    /\ lastCommitted' = <<>>
    /\ pc' = [pc EXCEPT ![t] = "idle"]
    /\ UNCHANGED <<heap, maxMessages, maxCharacters, arg, result, opsLeft>>
    /\ UNCHANGED <<streamVars, toolVars, requests>>

\* a caller writes to the slice GetMessages gave it:
\* messages1[0].Content = "Modified" (memory_test.go)
ModifySnapshot(t) ==
    /\ pc[t] = "idle" /\ opsLeft > 0
    /\ result[t].len > 0
    /\ \E i \in 1..result[t].len :
          heap' = [heap EXCEPT ![result[t].arr][result[t].off + i].Content = "Modified"]
    /\ opsLeft' = opsLeft - 1
    /\ UNCHANGED <<messages, totalChars, maxMessages, maxCharacters, mu, pc, arg,
                   result, appended, lastCommitted>>
    /\ UNCHANGED <<streamVars, toolVars, requests>>

\* ------------------------------------------------- encoding/json, decoding
\* A JSON text is a sequence of one-character strings. The values that the
\* alphabet of the modelled argument fragments can spell: strings without
\* escapes, null, and objects of these.
JString(chars) == [kind |-> "string", text |-> chars, members |-> <<>>]
JNull == [kind |-> "null", text |-> <<>>, members |-> <<>>]
JObject(m) == [kind |-> "object", text |-> <<>>, members |-> m]

ParseFail == [ok |-> FALSE, pos |-> 0, val |-> JNull]

\* the position of the first quote at or after i, or 0
RECURSIVE ClosingQuote(_, _)
ClosingQuote(t, i) ==
    IF i > Len(t) THEN 0
    ELSE IF t[i] = "\"" THEN i
    ELSE ClosingQuote(t, i + 1)

\* a string literal starting at position i
ParseString(t, i) ==
    IF i > Len(t) \/ t[i] # "\"" THEN ParseFail
    ELSE LET j == ClosingQuote(t, i + 1)
         IN IF j = 0 THEN ParseFail
            ELSE [ok |-> TRUE, pos |-> j + 1, val |-> JString(SubSeq(t, i + 1, j - 1))]

RECURSIVE ParseValue(_, _)
RECURSIVE ParseMembers(_, _, _)

\* the members of an object from position i on, after "{" or ","; a later
\* member replaces an earlier one of the same key
ParseMembers(t, i, acc) ==
    LET key == ParseString(t, i)
    IN IF ~key.ok \/ key.pos > Len(t) \/ t[key.pos] # ":" THEN ParseFail
       ELSE LET v == ParseValue(t, key.pos + 1)
                m == [k \in DOMAIN acc \cup {key.val.text} |->
                         IF k = key.val.text THEN v.val ELSE acc[k]]
            IN IF ~v.ok \/ v.pos > Len(t) THEN ParseFail
               ELSE IF t[v.pos] = "," THEN ParseMembers(t, v.pos + 1, m)
               ELSE IF t[v.pos] = "}"
                    THEN [ok |-> TRUE, pos |-> v.pos + 1, val |-> JObject(m)]
               ELSE ParseFail

ParseValue(t, i) ==
    IF i > Len(t) THEN ParseFail
    ELSE IF t[i] = "\"" THEN ParseString(t, i)
    ELSE IF t[i] = "n"
         THEN IF i + 3 <= Len(t) /\ SubSeq(t, i, i + 3) = <<"n", "u", "l", "l">>
              THEN [ok |-> TRUE, pos |-> i + 4, val |-> JNull]
              ELSE ParseFail
    ELSE IF t[i] = "{"
         THEN IF i + 1 <= Len(t) /\ t[i + 1] = "}"
              THEN [ok |-> TRUE, pos |-> i + 2, val |-> JObject(<<>>)]
              ELSE ParseMembers(t, i + 1, <<>>)
    ELSE ParseFail

\* a nil map[string]interface{}; it reads and marshals as an empty map does
NilMap == <<>>

\* json.Unmarshal([]byte(text), &args) with args a nil map[string]interface{}:
\* one value and nothing after it; an object fills the map, null leaves it
\* nil, any other value is a type error
Unmarshal(t) ==
    LET v == ParseValue(t, 1)
    IN IF v.ok /\ v.pos = Len(t) + 1 /\ v.val.kind \in {"object", "null"}
       THEN [err |-> "", args |-> IF v.val.kind = "null" THEN NilMap ELSE v.val.members]
       ELSE [err |-> "invalid JSON", args |-> NilMap]

\* ============================================================ streaming turn
\* ------------------------------------------------------------- StreamChunk
\* interface{} holding nil, or holding a string
NilResult == <<>>
StringResult(str) == <<str>>

Chunk(type, message, tool, arguments, res) ==
    [Type |-> type, Message |-> message, Tool |-> tool,
     Arguments |-> arguments, Result |-> res]

StartChunk == Chunk("start", "", "", NilMap, NilResult)
TokenChunk(text) == Chunk("token", text, "", NilMap, NilResult)
StreamErrorChunk(err) == Chunk("error", "Stream error: " \o err, "", NilMap, NilResult)
ParseErrorChunk(err) ==
    Chunk("error", "Failed to parse tool arguments: " \o err, "", NilMap, NilResult)
ToolChunk(name, args) == Chunk("tool", "", name, args, NilResult)
CompleteChunk(text) == Chunk("complete", text, "", NilMap, NilResult)
DoneChunk == Chunk("done", "", "", NilMap, NilResult)

\* chunks := make(chan StreamChunk, 100)
ChanCap == 100

\* -------------------------------------------------------- provider stream
\* one element of delta.ToolCalls; Name and Arguments are Function.Name and
\* Function.Arguments, HasIndex is tc.Index != nil
Fragment(hasIndex, index, id, type, name, arguments) ==
    [HasIndex |-> hasIndex, Index |-> index, ID |-> id, Type |-> type,
     Name |-> name, Arguments |-> arguments]

\* openai.ToolCall{}
ZeroToolCall == [ID |-> "", Type |-> "", Name |-> "", Arguments |-> <<>>]

\* a response with one choice, whose delta this is
Delta(content, calls) ==
    [Choices |-> <<[Content |-> content, ToolCalls |-> calls]>>]

NoChoices == [Choices |-> <<>>]

ArgOpen == <<"{", "\"", "s">>
ArgClose == <<"\"", ":", "\"", "c", "\"", "}">>
ArgEmptyObject == <<"{", "}">>
ArgNull == <<"n", "u", "l", "l">>

\* what stream.Recv() may return with a nil error
Responses ==
    { Delta("Hel", <<>>),
      Delta("lo", <<>>),
      Delta("!", <<>>),
      Delta("", <<Fragment(TRUE, 0, "call_1", "function", "get_alerts", ArgOpen)>>),
      Delta("", <<Fragment(TRUE, 0, "", "", "", ArgClose),
                  Fragment(TRUE, 1, "call_2", "function", "list_silences", ArgNull)>>),
      Delta("Hel", <<Fragment(TRUE, 1, "", "", "", ArgEmptyObject),
                     Fragment(FALSE, 0, "call_3", "function", "ignored", ArgEmptyObject)>>),
      Delta("", <<Fragment(TRUE, 0, "call_4", "function", "get_silences", <<>>)>>),
      Delta("", <<Fragment(TRUE, 2, "call_5", "function", "get_status", ArgEmptyObject)>>),
      NoChoices }

\* the non-EOF errors of stream.Recv()
StreamErrors == {"connection reset"}

AccumulateOverwrites(full, content) == content

\* fullContent += delta.Content
Accumulate(full, content) == full \o content

MergeFragmentOverwrites(tcs, tc) ==
    IF ~tc.HasIndex THEN tcs
    ELSE LET idx == tc.Index + 1
             grown == IF Len(tcs) < idx
                      THEN tcs \o [i \in 1..(idx - Len(tcs)) |-> ZeroToolCall]
                      ELSE tcs
             old == grown[idx]
         IN [grown EXCEPT ![idx] =
                [ID |-> IF tc.ID # "" THEN tc.ID ELSE old.ID,
                 Type |-> IF tc.Type # "" THEN tc.Type ELSE old.Type,
                 Name |-> IF tc.Name # "" THEN tc.Name ELSE old.Name,
                 Arguments |-> IF tc.Arguments # <<>>
                               THEN tc.Arguments
                               ELSE old.Arguments]]

\* the body of "for _, tc := range delta.ToolCalls" for one tc
MergeFragment(tcs, tc) ==
    IF ~tc.HasIndex THEN tcs
    ELSE LET idx == tc.Index + 1
             grown == IF Len(tcs) < idx
                      THEN tcs \o [i \in 1..(idx - Len(tcs)) |-> ZeroToolCall]
                      ELSE tcs
             old == grown[idx]
         IN [grown EXCEPT ![idx] =
                [ID |-> IF tc.ID # "" THEN tc.ID ELSE old.ID,
                 Type |-> IF tc.Type # "" THEN tc.Type ELSE old.Type,
                 Name |-> IF tc.Name # "" THEN tc.Name ELSE old.Name,
                 Arguments |-> IF tc.Arguments # <<>>
                               THEN old.Arguments \o tc.Arguments
                               ELSE old.Arguments]]

RECURSIVE MergeFragments(_, _)
MergeFragments(tcs, frags) ==
    IF frags = <<>> THEN tcs
    ELSE MergeFragments(MergeFragment(tcs, Head(frags)), Tail(frags))

DispatchedWithPlaceholders(tcs, i) == i..Len(tcs)

\* "if tc.Function.Name == "" { continue }": the calls the range loop over
\* toolCalls sends a chunk for, from position i on
Dispatched(tcs, i) == {j \in i..Len(tcs) : tcs[j].Name # ""}

SetMin(S) == CHOOSE x \in S : \A y \in S : x <= y

\* the chunk the loop sends for one accumulated call
ChunkOfToolCall(tc) ==
    LET u == Unmarshal(tc.Arguments)
    IN IF u.err # "" THEN ParseErrorChunk(u.err) ELSE ToolChunk(tc.Name, u.args)

\* --------------------------------------------------- StreamChat goroutine
\* the mutant: a channel without a capacity
CanSendUnbounded == ~closed

\* a send on the channel goes through when the buffer has room
CanSend == ~closed /\ Len(chunks) < ChanCap

Send(c) ==
    /\ CanSend
    /\ chunks' = Append(chunks, c)
    /\ emitted' = Append(emitted, c)

\* chunks <- StreamChunk{Type: "start"}
SendStart ==
    /\ spc = "start"
    /\ Send(StartChunk)
    /\ spc' = "recv"
    /\ UNCHANGED <<closed, fullContent, toolCalls, delta, ti, recvLeft, received>>
    /\ UNCHANGED <<HandlerVars, memVars, toolVars, requests>>

\* stream.Recv() returns io.EOF: break
RecvEOF ==
    /\ spc = "recv"
    /\ received' = Append(received, [err |-> "EOF", response |-> NoChoices])
    /\ spc' = "tools"
    /\ ti' = 1
    /\ UNCHANGED <<chunks, closed, emitted, fullContent, toolCalls, delta, recvLeft>>
    /\ UNCHANGED <<HandlerVars, memVars, toolVars, requests>>

\* stream.Recv() returns another error
RecvError ==
    /\ spc = "recv"
    /\ \E e \in StreamErrors :
          /\ received' = Append(received, [err |-> e, response |-> NoChoices])
          /\ delta' = [Content |-> e, ToolCalls |-> <<>>]
    /\ spc' = "stream_error"
    /\ UNCHANGED <<chunks, closed, emitted, fullContent, toolCalls, ti, recvLeft>>
    /\ UNCHANGED <<HandlerVars, memVars, toolVars, requests>>

\* chunks <- the error chunk; return, and the deferred close(chunks)
SendStreamError ==
    /\ spc = "stream_error"
    /\ Send(StreamErrorChunk(delta.Content))
    /\ closed' = TRUE
    /\ spc' = "returned"
    /\ UNCHANGED <<fullContent, toolCalls, delta, ti, recvLeft, received>>
    /\ UNCHANGED <<HandlerVars, memVars, toolVars, requests>>

\* stream.Recv() returns a response: no choice, continue; else the content
\* is added to fullContent and, unless a token is to be sent first, the
\* tool-call fragments are merged
Recv(rs) ==
    /\ spc = "recv" /\ recvLeft > 0
    /\ \E r \in rs :
          /\ received' = Append(received, [err |-> "", response |-> r])
          /\ IF r.Choices = <<>>
             THEN UNCHANGED <<spc, fullContent, toolCalls, delta>>
             ELSE LET d == r.Choices[1]
                  IN /\ fullContent' = Accumulate(fullContent, d.Content)
                     /\ delta' = d
                     /\ IF d.Content # ""
                        THEN spc' = "token" /\ UNCHANGED toolCalls
                        ELSE /\ spc' = "recv"
                             /\ toolCalls' = MergeFragments(toolCalls, d.ToolCalls)
    /\ recvLeft' = recvLeft - 1
    /\ UNCHANGED <<chunks, closed, emitted, ti>>
    /\ UNCHANGED <<HandlerVars, memVars, toolVars, requests>>

RecvResponse == Recv(Responses)

\* chunks <- the token chunk of the delta in hand, then its tool-call fragments
SendToken ==
    /\ spc = "token"
    /\ Send(TokenChunk(delta.Content))
    /\ toolCalls' = MergeFragments(toolCalls, delta.ToolCalls)
    /\ spc' = "recv"
    /\ UNCHANGED <<closed, fullContent, delta, ti, recvLeft, received>>
    /\ UNCHANGED <<HandlerVars, memVars, toolVars, requests>>

\* the range loop over toolCalls, up to and with its next send
SendToolChunk ==
    /\ spc = "tools"
    /\ Dispatched(toolCalls, ti) # {}
    /\ LET j == SetMin(Dispatched(toolCalls, ti))
       IN /\ Send(ChunkOfToolCall(toolCalls[j]))
          /\ ti' = j + 1
    /\ UNCHANGED <<spc, closed, fullContent, toolCalls, delta, recvLeft, received>>
    /\ UNCHANGED <<HandlerVars, memVars, toolVars, requests>>

\* the loop is over: chunks <- the complete chunk
SendComplete ==
    /\ spc = "tools"
    /\ Dispatched(toolCalls, ti) = {}
    /\ Send(CompleteChunk(fullContent))
    /\ spc' = "done"
    /\ UNCHANGED <<closed, fullContent, toolCalls, delta, ti, recvLeft, received>>
    /\ UNCHANGED <<HandlerVars, memVars, toolVars, requests>>

\* chunks <- the done chunk; return, and the deferred close(chunks)
SendDone ==
    /\ spc = "done"
    /\ Send(DoneChunk)
    /\ closed' = TRUE
    /\ spc' = "returned"
    /\ UNCHANGED <<fullContent, toolCalls, delta, ti, recvLeft, received>>
    /\ UNCHANGED <<HandlerVars, memVars, toolVars, requests>>

\* ------------------------------------------------------- handleChatStream
\* the message of the turn, as buildContextualMessage returns it
UserMessage == "hi"

Response(status, contentType, body) ==
    [Status |-> status, ContentType |-> contentType, Body |-> body]

\* sendError: the JSON object {"error": message}
ErrorResponse(status, message) ==
    Response(status, "application/json", <<[error |-> message]>>)

SSEHeaders == Response(200, "text/event-stream", <<>>)

\* json.Marshal(chunk): "type" always, each other field unless it is empty
\* (omitempty: "", a map without entries, a nil interface)
MarshalChunk(c) ==
    LET keys == {"type"}
                \cup (IF c.Message # "" THEN {"message"} ELSE {})
                \cup (IF c.Tool # "" THEN {"tool"} ELSE {})
                \cup (IF DOMAIN c.Arguments # {} THEN {"arguments"} ELSE {})
                \cup (IF c.Result # NilResult THEN {"result"} ELSE {})
    IN [k \in keys |->
           CASE k = "type" -> c.Type
             [] k = "message" -> c.Message
             [] k = "tool" -> c.Tool
             [] k = "arguments" -> c.Arguments
             [] k = "result" -> c.Result[1]]

SSEEventOneNewline(c) == Response(0, "", <<"data: ", MarshalChunk(c), "\n">>)

\* fmt.Sprintf("data: %s\n\n", string(data)), sent with status 0, no headers
SSEEvent(c) == Response(0, "", <<"data: ", MarshalChunk(c), "\n\n">>)

\* what executeTool returns: (result, nil) or (nil, err)
ExecuteToolOutcomes ==
    { [err |-> "", result |-> "2 alerts firing"],
      [err |-> "Grafana MCP client not available", result |-> ""],
      [err |-> "tool error: rate limit exceeded", result |-> ""],
      [err |-> "failed to invoke tool: connection refused", result |-> ""] }

SessionAddMessageDropsContent(role, content) ==
    LET msg == Message(role, IF role = "assistant" THEN "" ELSE content)
        a == AddMessageDone(heap, messages, totalChars, msg)
    IN /\ heap' = a.heap
       /\ messages' = a.slice
       /\ totalChars' = a.total
       /\ appended' = Append(appended, msg)
       /\ lastCommitted' = View(a.heap, a.slice)
       /\ UNCHANGED <<maxMessages, maxCharacters, mu, pc, arg, result, opsLeft,
                      toolVars>>

WithToolResultDropsError(c, o) ==
    IF c.Type # "tool" THEN c
    ELSE [c EXCEPT !.Result = IF o.err # "" THEN NilResult ELSE StringResult(o.result)]

\* the tool branch of the loop body: chunk.Result is set from executeTool
WithToolResult(c, o) ==
    IF c.Type # "tool" THEN c
    ELSE [c EXCEPT !.Result = IF o.err # ""
                              THEN StringResult("Error: " \o o.err)
                              ELSE StringResult(o.result)]

\* memory.AddMessage(role, content) in a turn, on the memory of the session
SessionAddMessage(role, content) ==
    LET a == AddMessageDone(heap, messages, totalChars, Message(role, content))
    IN /\ heap' = a.heap
       /\ messages' = a.slice
       /\ totalChars' = a.total
       /\ appended' = Append(appended, Message(role, content))
       /\ lastCommitted' = View(a.heap, a.slice)
       /\ UNCHANGED <<maxMessages, maxCharacters, mu, pc, arg, result, opsLeft,
                      toolVars>>

\* m.systemPrompt, as BuildSystemPrompt made it
SystemPrompt == "You are an observability assistant."

\* buildMessages: the system message, then the snapshot GetMessages returns
buildMessages(snapshot) == <<Message("system", SystemPrompt)>> \o snapshot

\* a completion request: its Messages, its Stream flag
CompletionRequest(msgs, stream) == [Messages |-> msgs, Stream |-> stream]

\* the request is rejected before RunChatStream: invalid body, or no message
RejectRequest ==
    /\ hpc = "request"
    /\ \E m \in {"Invalid request body", "Message is required"} :
          sent' = Append(sent, ErrorResponse(400, m))
    /\ hpc' = "returned"
    /\ UNCHANGED <<fullResponse, forwarded, executed, ProducerVars, memVars, toolVars, requests>>

\* RunChatStream adds the user message; StreamChat fails to open the stream
StreamFailsToStart ==
    /\ hpc = "request"
    /\ SessionAddMessage("user", UserMessage)
    /\ requests' = Append(requests,
                          CompletionRequest(buildMessages(lastCommitted'), TRUE))
    /\ sent' = Append(sent, ErrorResponse(500, "Failed to start stream"))
    /\ closed' = TRUE
    /\ hpc' = "returned"
    /\ UNCHANGED <<fullResponse, forwarded, executed, spc, chunks, emitted, fullContent,
                   toolCalls, delta, ti, recvLeft, received>>

\* RunChatStream adds the user message and StreamChat starts the goroutine;
\* the SSE headers are sent, or the send fails and the handler returns
StartStreamOf(ms) ==
    /\ hpc = "request"
    /\ \E m \in ms : SessionAddMessage("user", m)
    /\ requests' = Append(requests,
                          CompletionRequest(buildMessages(lastCommitted'), TRUE))
    /\ spc' = "start"
    /\ \E ok \in BOOLEAN :
          IF ok
          THEN sent' = Append(sent, SSEHeaders) /\ hpc' = "streaming"
          ELSE sent' = sent /\ hpc' = "failed"
    /\ UNCHANGED <<fullResponse, forwarded, executed, chunks, closed, emitted, fullContent,
                   toolCalls, delta, ti, recvLeft, received>>

StartStream == StartStreamOf({UserMessage})

\* the mutant: a tool result is sent to the model in a further request
HandleChunkAsksAgain ==
    /\ hpc = "streaming"
    /\ chunks # <<>>
    /\ chunks' = Tail(chunks)
    /\ \E o \in IF Head(chunks).Type = "tool"
                THEN ExecuteToolOutcomes
                ELSE {[err |-> "", result |-> ""]} :
          LET c == WithToolResult(Head(chunks), o)
          IN /\ forwarded' = Append(forwarded, c)
             /\ executed' = Append(executed, o)
             /\ fullResponse' = IF c.Type = "token"
                                THEN fullResponse \o c.Message
                                ELSE fullResponse
             /\ requests' =
                    IF c.Type = "tool"
                    THEN Append(requests,
                                CompletionRequest(
                                    Append(buildMessages(lastCommitted),
                                           Message("tool", c.Result[1])),
                                    TRUE))
                    ELSE requests
             /\ \E ok \in BOOLEAN :
                   IF ok
                   THEN sent' = Append(sent, SSEEvent(c)) /\ hpc' = hpc
                   ELSE sent' = sent /\ hpc' = "failed"
    /\ UNCHANGED <<spc, closed, emitted, fullContent, toolCalls, delta, ti,
                   recvLeft, received, memVars, toolVars>>

\* one round of "for chunk := range chunks": the tool is executed, a token
\* is added to fullResponse, the chunk is sent (or the send fails: return)
HandleChunk ==
    /\ hpc = "streaming"
    /\ chunks # <<>>
    /\ chunks' = Tail(chunks)
    /\ \E o \in IF Head(chunks).Type = "tool"
                THEN ExecuteToolOutcomes
                ELSE {[err |-> "", result |-> ""]} :
          LET c == WithToolResult(Head(chunks), o)
          IN /\ forwarded' = Append(forwarded, c)
             /\ executed' = Append(executed, o)
             /\ fullResponse' = IF c.Type = "token"
                                THEN fullResponse \o c.Message
                                ELSE fullResponse
             /\ \E ok \in BOOLEAN :
                   IF ok
                   THEN sent' = Append(sent, SSEEvent(c)) /\ hpc' = hpc
                   ELSE sent' = sent /\ hpc' = "failed"
    /\ UNCHANGED <<spc, closed, emitted, fullContent, toolCalls, delta, ti,
                   recvLeft, received, memVars, toolVars, requests>>

\* the channel is closed and drained: AddAssistantResponse, return nil
FinishStream ==
    /\ hpc = "streaming"
    /\ chunks = <<>> /\ closed
    /\ SessionAddMessage("assistant", fullResponse)
    /\ hpc' = "returned"
    /\ UNCHANGED <<fullResponse, sent, forwarded, executed, ProducerVars, requests>>

StreamStart(n) ==
    /\ spc = "idle"
    /\ chunks = <<>>
    /\ closed = FALSE
    /\ emitted = <<>>
    /\ fullContent = ""
    /\ toolCalls = <<>>
    /\ delta = [Content |-> "", ToolCalls |-> <<>>]
    /\ ti = 0
    /\ recvLeft = n
    /\ received = <<>>
    /\ hpc = "request"
    /\ fullResponse = ""
    /\ sent = <<>>
    /\ forwarded = <<>>
    /\ executed = <<>>

\* no turn yet; the stream of the turn yields at most MaxRecv responses
StreamInit == StreamStart(MaxRecv)

Producer ==
    \/ SendStart
    \/ RecvEOF
    \/ RecvError
    \/ SendStreamError
    \/ RecvResponse
    \/ SendToken
    \/ SendToolChunk
    \/ SendComplete
    \/ SendDone

Handler ==
    \/ RejectRequest
    \/ StreamFailsToStart
    \/ StartStream
    \/ HandleChunk
    \/ FinishStream

\* no pagination call
PageIdle ==
    /\ pageArgs = [items |-> <<>>, count |-> 0, offset |-> 0, maxCount |-> 0]
    /\ validated = [count |-> 0, offset |-> 0, err |-> <<>>]
    /\ paginated = [panic |-> FALSE]
    /\ pagePc = "idle"

\* no client and no discovery
DiscoverIdle ==
    /\ serverType = <<>>
    /\ tools = [ptr |-> <<>>, len |-> 0]
    /\ dpc = [t \in Threads |-> "idle"]
    /\ dresp = [t \in Threads |-> <<>>]
    /\ discoverLeft = 0
    /\ began = [t \in Threads |-> 0]
    /\ overlapped = FALSE
    /\ listRequests = <<>>
    /\ returns = <<>>

\* no instance and no tool call
InvokeIdle ==
    /\ mcpClients = {}
    /\ ipc = "idle"
    /\ ivk = [via |-> "", client |-> <<>>, name |-> <<>>, args |-> <<>>, raw |-> <<>>,
             origin |-> <<>>]
    /\ rewritten = <<>>
    /\ wire = <<>>
    /\ response = [err |-> "none", Error |-> <<>>, Content |-> <<>>]
    /\ ret = [result |-> [kind |-> "null", text |-> <<>>, members |-> <<>>],
              err |-> [msg |-> "", detail |-> <<>>]]
    /\ execRet = [result |-> <<>>, err |-> [msg |-> "", detail |-> <<>>]]

\* no message to build
ContextIdle ==
    /\ userMessage = ""
    /\ dashboard = <<>>
    /\ contextual = <<>>
    /\ ctxPc = "idle"

\* no provider server
ServerIdle ==
    /\ serverName = ""
    /\ rateLimit = [RPS |-> 0, Burst |-> 0]
    /\ limiter = <<>>
    /\ invocation = [id |-> 0, tool |-> "", arguments |-> <<>>, valid |-> TRUE]
    /\ callPc = "idle"
    /\ toolResult = [isError |-> FALSE, text |-> <<>>, page |-> <<>>]
    /\ callsLeft = 0
    /\ upstream = <<>>
    /\ decisions = <<>>

\* no instance being created
InstanceIdle ==
    /\ env = [settings |-> FALSE, apiKey |-> FALSE, llm |-> FALSE,
              providers |-> <<>>]
    /\ remaining = {}
    /\ cpc = "idle"
    /\ created = [instance |-> FALSE, err |-> ""]
    /\ mcpTypes = <<>>
    /\ managerTools = {}

\* no client paging
WalkIdle ==
    /\ walk = [items |-> <<>>, count |-> 0, offset |-> 0]
    /\ windows = <<>>
    /\ walkPc = "idle"

\* no manager
SessionsIdle ==
    /\ sessionMemories = <<>>
    /\ memories = <<>>
    /\ managerMu = 0
    /\ tpc = [t \in Threads |-> "idle"]
    /\ turn = [t \in Threads |-> [op |-> "", sessionID |-> "", message |-> "",
                                   mem |-> 0, ok |-> FALSE]]
    /\ rendered = [t \in Threads |-> <<>>]
    /\ turnsLeft = 0
    /\ handed = {}

\* no plugin
PluginIdle ==
    /\ instances = <<>>
    /\ pluginMu = [writer |-> 0, readers |-> {}]
    /\ gpc = [t \in Threads |-> "idle"]
    /\ lookup = [t \in Threads |-> [instanceID |-> 0, instance |-> 0,
                                     exists |-> FALSE]]
    /\ got = [t \in Threads |-> [instance |-> 0, err |-> ""]]
    /\ getsLeft = 0
    /\ stores = <<>>

LaterIdle == WalkIdle /\ SessionsIdle /\ PluginIdle

RestIdleButWalk ==
    ContextIdle /\ ServerIdle /\ InstanceIdle /\ SessionsIdle /\ PluginIdle

RestIdle == ContextIdle /\ ServerIdle /\ InstanceIdle /\ LaterIdle

ToolsIdle == PageIdle /\ DiscoverIdle /\ InvokeIdle /\ RestIdle

\* getOrCreateMemory: the session's memory is NewConversationMemory()
TurnIdle ==
    /\ StreamInit
    /\ requests = <<>>
    /\ MemFields
    /\ maxMessages = DefaultMaxMessages
    /\ maxCharacters = DefaultMaxCharacters

Init == TurnIdle /\ ToolsIdle

Next == Producer \/ Handler

Spec == Init /\ [][Next]_vars

\* ===================================== a turn, streaming or not, of any size
\* s, n times doubled
RECURSIVE Doubled(_, _)
Doubled(s, n) == IF n = 0 THEN s ELSE Doubled(s \o s, n - 1)

\* a message of more than DefaultMaxCharacters characters (2^17 of them)
LongMessage == Doubled("x", 17)

\* the message of a turn: ChatRequest.Message has no upper length
UserMessages == {UserMessage, LongMessage}

\* what llmClient.Chat may return with a nil error
ChatTexts == {"", "2 alerts firing"}

\* sendJSON(sender, 200, ChatResponse{Response, SessionID})
ChatResponse(text) ==
    Response(200, "application/json", <<[response |-> text, session_id |-> "session-1"]>>)

StartStreamAny == StartStreamOf(UserMessages)

\* handleChat up to llmClient.Chat: RunChat adds the user message, renders the
\* messages and makes its request
RunChatAddsUser ==
    /\ hpc = "request"
    /\ \E m \in UserMessages : SessionAddMessage("user", m)
    /\ requests' = Append(requests,
                          CompletionRequest(buildMessages(lastCommitted'), FALSE))
    /\ hpc' = "chat"
    /\ UNCHANGED <<fullResponse, sent, forwarded, executed, ProducerVars>>

\* llmClient.Chat fails: RunChat returns the error, handleChat sends it
ChatFails ==
    /\ hpc = "chat"
    /\ sent' = Append(sent, ErrorResponse(500, "Chat failed"))
    /\ hpc' = "returned"
    /\ UNCHANGED <<fullResponse, forwarded, executed, ProducerVars, memVars, toolVars, requests>>

\* llmClient.Chat returns a response: RunChat adds it and returns it
ChatResponds ==
    /\ hpc = "chat"
    /\ \E text \in ChatTexts :
          /\ SessionAddMessage("assistant", text)
          /\ fullResponse' = text
    /\ hpc' = "respond"
    /\ UNCHANGED <<sent, forwarded, executed, ProducerVars, requests>>

\* handleChat sends the response, or the send fails
SendChatResponse ==
    /\ hpc = "respond"
    /\ \E ok \in BOOLEAN :
          sent' = IF ok THEN Append(sent, ChatResponse(fullResponse)) ELSE sent
    /\ hpc' = "returned"
    /\ UNCHANGED <<fullResponse, forwarded, executed, ProducerVars, memVars, toolVars, requests>>

ChatHandler ==
    \/ RejectRequest
    \/ StreamFailsToStart
    \/ StartStreamAny
    \/ HandleChunk
    \/ FinishStream
    \/ RunChatAddsUser
    \/ ChatFails
    \/ ChatResponds
    \/ SendChatResponse

ChatNext == Producer \/ ChatHandler

ChatSpec == Init /\ [][ChatNext]_vars

\* ================================================ a turn with a long answer
\* a stream of content deltas only: toolCalls stays empty and the loop over
\* it is not entered
ContentResponses == {Delta("Hel", <<>>)}

RecvContent == Recv(ContentResponses)

\* one response more than the channel can hold
LongStream == ChanCap + 1

LongProducer ==
    \/ SendStart
    \/ RecvEOF
    \/ RecvError
    \/ SendStreamError
    \/ RecvContent
    \/ SendToken
    \/ SendComplete
    \/ SendDone

LongTurnInit ==
    /\ StreamStart(LongStream)
    /\ requests = <<>>
    /\ MemFields
    /\ maxMessages = DefaultMaxMessages
    /\ maxCharacters = DefaultMaxCharacters
    /\ ToolsIdle

LongTurnNext == LongProducer \/ Handler

\* the goroutine of StreamChat and the handler each run when they can
LongTurnSpec ==
    LongTurnInit /\ [][LongTurnNext]_vars /\ WF_vars(LongProducer) /\ WF_vars(Handler)

\* ======================================= the memory under concurrent callers
MemNext ==
    \E t \in Threads :
        \/ AddLock(t)
        \/ AddAppend(t)
        \/ TrimToMessageLimit(t)
        \/ TrimToCharacterLimit(t)
        \/ AddUnlock(t)
        \/ GetRLock(t)
        \/ GetCopy(t)
        \/ GetRUnlock(t)
        \/ ClearLock(t)
        \/ ClearReset(t)
        \/ ModifySnapshot(t)

\* a memory of any configuration, and no turn
MemoryInit == MemInit /\ StreamInit /\ requests = <<>> /\ ToolsIdle

MemorySpec == MemoryInit /\ [][MemNext]_vars

\* ======================================================= pagination engine
\* Go's int is 64 bits wide on the builds of this repository; the model keeps
\* its two's complement arithmetic at a width of IntBits bits
MinInt == -(2 ^ (IntBits - 1))
MaxInt == 2 ^ (IntBits - 1) - 1
GoInt == MinInt..MaxInt

\* the int that an addition leaves: the sum modulo 2^IntBits
WrapInt(x) == ((x - MinInt) % (2 ^ IntBits)) + MinInt

\* the slices a provider paginates: every sequence of up to MaxItems items
ItemSlices == UNION {[1..n -> {"a", "b"}] : n \in 0..MaxItems}

MaxCounts == {0, 2, MaxInt}

\* the mutant: a negative offset is let through
ValidateAcceptsNegativeOffset(count, offset, maxCount) ==
    IF count < 1
    THEN [count |-> 0, offset |-> 0,
          err |-> <<"count parameter (", count, ") must be at least 1">>]
    ELSE IF count > maxCount
    THEN [count |-> 0, offset |-> 0,
          err |-> <<"count parameter (", count, ") exceeds maximum allowed value (",
                    maxCount, ")">>]
    ELSE [count |-> count, offset |-> offset, err |-> <<>>]

ValidateRejectsMaxCount(count, offset, maxCount) ==
    IF count < 1
    THEN [count |-> 0, offset |-> 0,
          err |-> <<"count parameter (", count, ") must be at least 1">>]
    ELSE IF count >= maxCount
    THEN [count |-> 0, offset |-> 0,
          err |-> <<"count parameter (", count, ") exceeds maximum allowed value (",
                    maxCount, ")">>]
    ELSE IF offset < 0
    THEN [count |-> 0, offset |-> 0,
          err |-> <<"offset parameter (", offset, ") must be non-negative (>= 0)">>]
    ELSE [count |-> count, offset |-> offset, err |-> <<>>]

\* (count, offset, err); err = <<>> is nil
ValidatePaginationParams(count, offset, maxCount) ==
    IF count < 1
    THEN [count |-> 0, offset |-> 0,
          err |-> <<"count parameter (", count, ") must be at least 1">>]
    ELSE IF count > maxCount
    THEN [count |-> 0, offset |-> 0,
          err |-> <<"count parameter (", count, ") exceeds maximum allowed value (",
                    maxCount, ")">>]
    ELSE IF offset < 0
    THEN [count |-> 0, offset |-> 0,
          err |-> <<"offset parameter (", offset, ") must be non-negative (>= 0)">>]
    ELSE [count |-> count, offset |-> offset, err |-> <<>>]

PaginationResult(total, offset, count, requestedCount, hasMore) ==
    [Total |-> total, Offset |-> offset, Count |-> count,
     RequestedCount |-> requestedCount, HasMore |-> hasMore]

PaginatedResponse(data, pagination) ==
    [panic |-> FALSE, Data |-> data, Pagination |-> pagination]

\* "panic: runtime error: slice bounds out of range"
SlicePanic == [panic |-> TRUE]

\* the slice expression s[lo:hi] panics unless 0 <= lo <= hi <= cap(s)
SliceInBounds(s, lo, hi) == 0 <= lo /\ lo <= hi /\ hi <= Len(s)

\* the mutant: has_more is still true on the page that ends the slice
PaginateResultsHasMoreAtEnd(items, count, offset) ==
    LET total == Len(items)
        endIndex == WrapInt(offset + count)
    IN IF offset >= total
       THEN PaginatedResponse(<<>>, PaginationResult(total, offset, 0, count, FALSE))
       ELSE LET end == IF endIndex > total THEN total ELSE endIndex
            IN IF ~SliceInBounds(items, offset, end)
               THEN SlicePanic
               ELSE LET paginatedItems == SubSeq(items, offset + 1, end)
                    IN PaginatedResponse(
                           paginatedItems,
                           PaginationResult(total, offset, Len(paginatedItems),
                                            count, end <= total))

PaginateResults(items, count, offset) ==
    LET total == Len(items)
        endIndex == WrapInt(offset + count)
    IN IF offset >= total
       THEN PaginatedResponse(<<>>, PaginationResult(total, offset, 0, count, FALSE))
       ELSE LET end == IF endIndex > total THEN total ELSE endIndex
            IN IF ~SliceInBounds(items, offset, end)
               THEN SlicePanic
               ELSE LET paginatedItems == SubSeq(items, offset + 1, end)
                    IN PaginatedResponse(
                           paginatedItems,
                           PaginationResult(total, offset, Len(paginatedItems),
                                            count, end < total))

\* a tool handler validates the arguments of the call
ValidateCall ==
    /\ pagePc = "call"
    /\ validated' = ValidatePaginationParams(pageArgs.count, pageArgs.offset,
                                             pageArgs.maxCount)
    /\ pagePc' = "validated"
    /\ UNCHANGED <<pageArgs, paginated, notPageVars>>

\* the arguments were rejected: the handler returns the error
RejectCall ==
    /\ pagePc = "validated"
    /\ validated.err # <<>>
    /\ pagePc' = "done"
    /\ UNCHANGED <<pageArgs, validated, paginated, notPageVars>>

\* the handler paginates what the provider listed, with the validated values
PaginateValidated ==
    /\ pagePc = "validated"
    /\ validated.err = <<>>
    /\ paginated' = PaginateResults(pageArgs.items, validated.count, validated.offset)
    /\ pagePc' = "done"
    /\ UNCHANGED <<pageArgs, validated, notPageVars>>

\* PaginateResults called on its own, as the tests and benchmarks call it
PaginateCall ==
    /\ pagePc = "call"
    /\ paginated' = PaginateResults(pageArgs.items, pageArgs.count, pageArgs.offset)
    /\ pagePc' = "paginated"
    /\ UNCHANGED <<pageArgs, validated, notPageVars>>

\* any call of the pagination engine, and no turn
PaginateInit ==
    /\ TurnIdle /\ DiscoverIdle /\ InvokeIdle /\ RestIdle
    /\ pageArgs \in [items : ItemSlices, count : GoInt, offset : GoInt,
                     maxCount : MaxCounts]
    /\ validated = [count |-> 0, offset |-> 0, err |-> <<>>]
    /\ paginated = [panic |-> FALSE]
    /\ pagePc = "call"

PaginateNext ==
    \/ ValidateCall
    \/ RejectCall
    \/ PaginateValidated
    \/ PaginateCall

PaginateSpec == PaginateInit /\ [][PaginateNext]_vars

\* ============================================================== MCP client
\* strings whose characters the code inspects are sequences of characters
Grafana == <<"g", "r", "a", "f", "a", "n", "a">>
Alertmanager == <<"a", "l", "e", "r", "t", "m", "a", "n", "a", "g", "e", "r">>

Genesys == <<"g", "e", "n", "e", "s", "y", "s">>

\* the serverType of a client
ServerTypes == {Grafana, Alertmanager, Genesys}

\* fmt.Sprintf("%s__%s", c.serverType, name)
Exposed(type, name) == type \o <<"_", "_">> \o name

\* "if c.serverType != "grafana"": every name of the catalog gets the prefix
Namespaced(type, catalog) ==
    IF type # Grafana
    THEN [i \in 1..Len(catalog) |-> Exposed(type, catalog[i])]
    ELSE catalog

\* the tool names of the catalogs a provider may answer tools/list with
ListAlerts == <<"l", "i", "s", "t", "_", "a", "l", "e", "r", "t", "s">>
GetSilences == <<"g", "e", "t", "_", "s", "i", "l", "e", "n", "c", "e", "s">>
Catalogs == {<<>>, <<ListAlerts>>, <<ListAlerts, GetSilences>>}

\* the errors of a tools/list request: transport, and a body that is not JSON
ListErrors == {"failed to discover tools", "failed to parse tools response"}

\* a []Tool value: the address of its array (here: the array; <<>> is nil)
\* and its length, two words that are read and written one at a time
ToolSlice(array, length) == [ptr |-> array, len |-> length]
NilTools == ToolSlice(<<>>, 0)

\* "if len(c.tools) > 0": the cache is taken as populated
Cached(s) == s.len > 0

\* ------------------------------------------------- DiscoverTools, by step
\* a goroutine calls DiscoverTools and reads len(c.tools)
DiscoverCall(t) ==
    /\ dpc[t] = "idle" /\ discoverLeft > 0
    /\ discoverLeft' = discoverLeft - 1
    /\ began' = [began EXCEPT ![t] = Len(returns)]
    /\ overlapped' = (overlapped \/ \E u \in Threads : dpc[u] # "idle")
    /\ dpc' = [dpc EXCEPT ![t] = IF Cached(tools) THEN "cached" ELSE "request"]
    /\ UNCHANGED <<serverType, tools, dresp, listRequests, returns, notDiscoverVars>>

\* return c.tools, nil
ReturnCached(t) ==
    /\ dpc[t] = "cached"
    /\ returns' = Append(returns, [thread |-> t, began |-> began[t], err |-> "",
                                   tools |-> tools, request |-> FALSE])
    /\ dpc' = [dpc EXCEPT ![t] = "idle"]
    /\ UNCHANGED <<serverType, tools, dresp, discoverLeft, began, overlapped,
                   listRequests, notDiscoverVars>>

\* the tools/list request fails, or its body does not parse: return nil, err
ListToolsFails(t) ==
    /\ dpc[t] = "request"
    /\ \E e \in ListErrors :
          /\ listRequests' = Append(listRequests, [thread |-> t, began |-> began[t],
                                                   err |-> e, catalog |-> <<>>])
          /\ returns' = Append(returns, [thread |-> t, began |-> began[t], err |-> e,
                                         tools |-> NilTools, request |-> TRUE])
    /\ dpc' = [dpc EXCEPT ![t] = "idle"]
    /\ UNCHANGED <<serverType, tools, dresp, discoverLeft, began, overlapped,
                   notDiscoverVars>>

\* the tools/list request is answered with a catalog, which is namespaced
ListToolsResponds(t) ==
    /\ dpc[t] = "request"
    /\ \E catalog \in Catalogs :
          /\ listRequests' = Append(listRequests, [thread |-> t, began |-> began[t],
                                                   err |-> "", catalog |-> catalog])
          /\ dresp' = [dresp EXCEPT ![t] = Namespaced(serverType, catalog)]
    /\ dpc' = [dpc EXCEPT ![t] = "store"]
    /\ UNCHANGED <<serverType, tools, discoverLeft, began, overlapped, returns,
                   notDiscoverVars>>

\* c.tools = result.Result.Tools: one word of the slice is written
StoreWord(t) ==
    /\ dpc[t] = "store"
    /\ \/ /\ tools' = [tools EXCEPT !.ptr = dresp[t]]
          /\ dpc' = [dpc EXCEPT ![t] = "store_len"]
       \/ /\ tools' = [tools EXCEPT !.len = Len(dresp[t])]
          /\ dpc' = [dpc EXCEPT ![t] = "store_ptr"]
    /\ UNCHANGED <<serverType, dresp, discoverLeft, began, overlapped, listRequests,
                   returns, notDiscoverVars>>

\* c.tools = result.Result.Tools: the other word is written
StoreRest(t) ==
    /\ dpc[t] \in {"store_len", "store_ptr"}
    /\ tools' = IF dpc[t] = "store_len"
                THEN [tools EXCEPT !.len = Len(dresp[t])]
                ELSE [tools EXCEPT !.ptr = dresp[t]]
    /\ dpc' = [dpc EXCEPT ![t] = "stored"]
    /\ UNCHANGED <<serverType, dresp, discoverLeft, began, overlapped, listRequests,
                   returns, notDiscoverVars>>

\* return c.tools, nil
ReturnStored(t) ==
    /\ dpc[t] = "stored"
    /\ returns' = Append(returns, [thread |-> t, began |-> began[t], err |-> "",
                                   tools |-> tools, request |-> TRUE])
    /\ dpc' = [dpc EXCEPT ![t] = "idle"]
    /\ UNCHANGED <<serverType, tools, dresp, discoverLeft, began, overlapped,
                   listRequests, notDiscoverVars>>

\* NewClient(url, serverType): no tools yet, and no call
DiscoverInit ==
    /\ TurnIdle /\ PageIdle /\ InvokeIdle /\ RestIdle
    /\ serverType \in ServerTypes
    /\ tools = NilTools
    /\ dpc = [t \in Threads |-> "idle"]
    /\ dresp = [t \in Threads |-> <<>>]
    /\ discoverLeft = MaxDiscover
    /\ began = [t \in Threads |-> 0]
    /\ overlapped = FALSE
    /\ listRequests = <<>>
    /\ returns = <<>>

DiscoverNext ==
    \E t \in Threads :
        \/ DiscoverCall(t)
        \/ ReturnCached(t)
        \/ ListToolsFails(t)
        \/ ListToolsResponds(t)
        \/ StoreWord(t)
        \/ StoreRest(t)
        \/ ReturnStored(t)

DiscoverSpec == DiscoverInit /\ [][DiscoverNext]_vars

\* ================================================== MCP client: InvokeTool
\* --------------------------------------------------- package strings, fmt
\* strings.HasPrefix(s, prefix)
HasPrefix(s, prefix) ==
    Len(s) >= Len(prefix) /\ SubSeq(s, 1, Len(prefix)) = prefix

\* strings.TrimPrefix(s, prefix)
TrimPrefix(s, prefix) ==
    IF HasPrefix(s, prefix) THEN SubSeq(s, Len(prefix) + 1, Len(s)) ELSE s

\* strings.Contains(s, substr)
Contains(s, substr) ==
    \E i \in 0..(Len(s) - Len(substr)) : SubSeq(s, i + 1, i + Len(substr)) = substr

\* strings.Split(s, "_"): the segments between the underscores
RECURSIVE SplitUnderscore(_)
SplitUnderscore(s) ==
    IF \A i \in 1..Len(s) : s[i] # "_" THEN <<s>>
    ELSE LET i == CHOOSE i \in 1..Len(s) :
                      s[i] = "_" /\ \A j \in 1..(i - 1) : s[j] # "_"
         IN <<SubSeq(s, 1, i - 1)>> \o SplitUnderscore(SubSeq(s, i + 1, Len(s)))

LowerCase == <<"a", "b", "c", "d", "e", "f", "g", "h", "i", "j", "k", "l", "m",
               "n", "o", "p", "q", "r", "s", "t", "u", "v", "w", "x", "y", "z">>
UpperCase == <<"A", "B", "C", "D", "E", "F", "G", "H", "I", "J", "K", "L", "M",
               "N", "O", "P", "Q", "R", "S", "T", "U", "V", "W", "X", "Y", "Z">>

\* strings.ToUpper of a string of one character
ToUpper(c) ==
    IF \E i \in 1..26 : LowerCase[i] = c
    THEN UpperCase[CHOOSE i \in 1..26 : LowerCase[i] = c]
    ELSE c

\* the loop of toCamelCase over parts[1:]
RECURSIVE CamelParts(_, _)
CamelParts(acc, parts) ==
    IF parts = <<>> THEN acc
    ELSE LET part == Head(parts)
         IN CamelParts(IF Len(part) > 0
                       THEN acc \o <<ToUpper(part[1])>> \o Tail(part)
                       ELSE acc,
                       Tail(parts))

toCamelCase(s) ==
    LET parts == SplitUnderscore(s)
    IN IF Len(parts) = 1 THEN s
       ELSE CamelParts(parts[1], Tail(parts))

Digits == <<"0", "1", "2", "3", "4", "5", "6", "7", "8", "9">>
IsDigit(c) == \E i \in 1..10 : Digits[i] = c
DigitValue(c) == (CHOOSE i \in 1..10 : Digits[i] = c) - 1

\* the leading digits of s
RECURSIVE LeadingDigits(_)
LeadingDigits(s) ==
    IF s = <<>> \/ ~IsDigit(s[1]) THEN <<>>
    ELSE <<s[1]>> \o LeadingDigits(Tail(s))

\* strconv.ParseInt of a string of digits, base 10
RECURSIVE DecimalValue(_)
DecimalValue(ds) ==
    IF ds = <<>> THEN 0
    ELSE 10 * DecimalValue(SubSeq(ds, 1, Len(ds) - 1)) + DigitValue(ds[Len(ds)])

\* fmt.Sscanf(value, "%d", &count): an optional sign, then the digits up to
\* the first other character; what follows them is left unread
Sscanf(value) ==
    LET signed == value # <<>> /\ value[1] \in {"+", "-"}
        digits == LeadingDigits(IF signed THEN Tail(value) ELSE value)
    IN IF digits = <<>>
       THEN [err |-> "expected integer", count |-> 0]
       ELSE [err |-> "",
             count |-> IF signed /\ value[1] = "-"
                       THEN -DecimalValue(digits)
                       ELSE DecimalValue(digits)]

\* ------------------------------------------------ argument normalization
\* a number value, by its decimal text
JNumber(n) == [kind |-> "number", text |-> <<ToString(n)>>, members |-> <<>>]

\* time.Now(), in seconds since the epoch
Now == 1700000000

\* t.Format(time.RFC3339) in UTC: the date (as days since the epoch), the
\* hour, the minute and the second; fractions of a second are dropped
FormatRFC3339(t) ==
    <<ToString(t \div 86400), "T", ToString((t % 86400) \div 3600), ":",
      ToString((t % 3600) \div 60), ":", ToString(t % 60), "Z">>

\* time.ParseDuration(s) for an s that ends in none of s, m, h: only a
\* signed zero is a duration without a unit
TimeParseDuration(s) ==
    IF s \in {<<"+", "0">>, <<"-", "0">>}
    THEN [err |-> "", seconds |-> 0]
    ELSE [err |-> "time: invalid duration", seconds |-> 0]

\* parseDuration(s); the duration is counted in seconds
parseDuration(s) ==
    IF Len(s) < 2 THEN [err |-> "invalid duration format", seconds |-> 0]
    ELSE LET unit == s[Len(s)]
             value == SubSeq(s, 1, Len(s) - 1)
         IN IF unit \notin {"s", "m", "h", "d"} THEN TimeParseDuration(s)
            ELSE LET multiplier == CASE unit = "s" -> 1
                                     [] unit = "m" -> 60
                                     [] unit = "h" -> 3600
                                     [] unit = "d" -> 86400
                     scanned == Sscanf(value)
                 IN IF scanned.err # ""
                    THEN [err |-> scanned.err, seconds |-> 0]
                    ELSE [err |-> "", seconds |-> scanned.count * multiplier]

NowMinus == <<"n", "o", "w", "-">>
NowPlus == <<"n", "o", "w", "+">>

\* parseRelativeTime(relative), with time.Now() = now
parseRelativeTime(relative, now) ==
    IF HasPrefix(relative, NowMinus)
    THEN LET d == parseDuration(TrimPrefix(relative, NowMinus))
         IN IF d.err # "" THEN [err |-> d.err, timestamp |-> <<>>]
            ELSE [err |-> "", timestamp |-> FormatRFC3339(now - d.seconds)]
    ELSE IF HasPrefix(relative, NowPlus)
    THEN LET d == parseDuration(TrimPrefix(relative, NowPlus))
         IN IF d.err # "" THEN [err |-> d.err, timestamp |-> <<>>]
            ELSE [err |-> "", timestamp |-> FormatRFC3339(now + d.seconds)]
    ELSE [err |-> "invalid relative time format", timestamp |-> <<>>]

Underscore == <<"_">>
StepSeconds == <<"s", "t", "e", "p", "S", "e", "c", "o", "n", "d", "s">>
Prometheus == <<"p", "r", "o", "m", "e", "t", "h", "e", "u", "s">>
RangeWord == <<"r", "a", "n", "g", "e">>

\* the body of "for key, value := range args": the entry it writes
NormalizedEntry(type, key, value, now) ==
    LET relative == /\ value.kind = "string"
                    /\ (HasPrefix(value.text, NowMinus) \/ HasPrefix(value.text, NowPlus))
                    /\ parseRelativeTime(value.text, now).err = ""
    IN IF relative
       THEN [key |-> key, value |-> JString(parseRelativeTime(value.text, now).timestamp)]
       ELSE IF type = Grafana /\ Contains(key, Underscore)
       THEN [key |-> toCamelCase(key), value |-> value]
       ELSE [key |-> key, value |-> value]

\* the maps the loop over args can leave in normalized: where two entries
\* are written under one key, the map iteration order decides which stays
NormalizedMaps(type, args, now) ==
    LET entries == {NormalizedEntry(type, k, args[k], now) : k \in DOMAIN args}
        keys == {e.key : e \in entries}
    IN {m \in [keys -> {e.value : e \in entries}] :
           \A k \in keys : [key |-> k, value |-> m[k]] \in entries}

WithStepSecondsAlways(toolName, normalized) ==
    IF Contains(toolName, Prometheus) /\ Contains(toolName, RangeWord)
    THEN [k \in DOMAIN normalized \cup {StepSeconds} |-> JNumber(60)]
    ELSE normalized

\* "Add default stepSeconds for Prometheus range queries"
WithStepSeconds(toolName, normalized) ==
    IF /\ Contains(toolName, Prometheus) /\ Contains(toolName, RangeWord)
       /\ StepSeconds \notin DOMAIN normalized
    THEN [k \in DOMAIN normalized \cup {StepSeconds} |->
             IF k \in DOMAIN normalized THEN normalized[k] ELSE JNumber(60)]
    ELSE normalized

\* the argument values of a call: strings, and a number
ArgValues ==
    {JNumber(30)} \cup
    {JString(v) : v \in
    { <<"n", "o", "w", "-", "1", "h">>,
      <<"n", "o", "w", "+", "2", "d">>,
      <<"n", "o", "w", "-", "1", "0", "m">>,
      <<"n", "o", "w", "+", "5", "s">>,
      <<"n", "o", "w", "-", "1", "x", "h">>,
      <<"n", "o", "w", "-", "1", ".", "5", "h">>,
      <<"n", "o", "w", "-", "h">>,
      <<"n", "o", "w", "-">>,
      <<"n", "o", "w", "-", "5">>,
      <<"n", "o", "w", "-", "+", "0">>,
      <<"n", "o", "w", "-", "-", "5", "h">>,
      <<"n", "o", "w">>,
      <<"n", "o", "t", "-", "a", "-", "t", "i", "m", "e">>,
      <<"x">> }}

ArgKeys ==
    { <<"f", "r", "o", "m">>,
      <<"s", "t", "a", "r", "t", "_", "t", "i", "m", "e">>,
      <<"d", "a", "t", "a", "s", "o", "u", "r", "c", "e", "_", "u", "i", "d">>,
      <<"t", "r", "a", "i", "l", "i", "n", "g", "_">>,
      <<"s", "t", "e", "p", "_", "s", "e", "c", "o", "n", "d", "s">>,
      <<"s", "t", "e", "p", "S", "e", "c", "o", "n", "d", "s">> }

\* the arguments of a call: no argument, one, or two
ArgMaps ==
    {<<>>}
    \cup {[k \in {key} |-> v] : key \in ArgKeys, v \in ArgValues}
    \cup {[k \in {<<"s", "t", "e", "p", "_", "s", "e", "c", "o", "n", "d", "s">>, <<"s", "t", "e", "p", "S", "e", "c", "o", "n", "d", "s">>} |-> IF k = <<"s", "t", "e", "p", "_", "s", "e", "c", "o", "n", "d", "s">> THEN JNumber(30) ELSE JNumber(15)],
          [k \in {<<"s", "t", "a", "r", "t", "_", "t", "i", "m", "e">>, <<"t", "o">>} |-> IF k = <<"s", "t", "a", "r", "t", "_", "t", "i", "m", "e">> THEN JString(<<"n", "o", "w", "-", "1", "h">>) ELSE JString(<<"n", "o", "w">>)]}

\* the tool names a model may call
ToolNames ==
    { <<"l", "i", "s", "t", "_", "a", "l", "e", "r", "t", "s">>,
      <<"a", "l", "e", "r", "t", "m", "a", "n", "a", "g", "e", "r", "_", "_", "l", "i", "s", "t", "_", "a", "l", "e", "r", "t", "s">>,
      <<"a", "l", "e", "r", "t", "m", "a", "n", "a", "g", "e", "r", "_", "_">>,
      <<"g", "e", "n", "e", "s", "y", "s", "_", "_", "g", "e", "t", "_", "q", "u", "e", "u", "e">>,
      <<"q", "u", "e", "r", "y", "_", "p", "r", "o", "m", "e", "t", "h", "e", "u", "s", "_", "r", "a", "n", "g", "e">>,
      <<"a", "l", "e", "r", "t", "m", "a", "n", "a", "g", "e", "r", "_", "_", "q", "u", "e", "r", "y", "_", "p", "r", "o", "m", "e", "t", "h", "e", "u", "s", "_", "r", "a", "n", "g", "e">>,
      <<"q", "u", "e", "r", "y", "_", "p", "r", "o", "m", "e", "t", "h", "e", "u", "s">>,
      <<"a", "l", "e", "r", "t", "m", "a", "n", "a", "g", "e", "r", "_", "_", "a", "l", "e", "r", "t", "m", "a", "n", "a", "g", "e", "r", "_", "_", "l", "i", "s", "t", "_", "a", "l", "e", "r", "t", "s">> }

\* the names a provider may give its tools
RawNames ==
    { <<"l", "i", "s", "t", "_", "a", "l", "e", "r", "t", "s">>,
      <<"q", "u", "e", "r", "y", "_", "p", "r", "o", "m", "e", "t", "h", "e", "u", "s", "_", "r", "a", "n", "g", "e">>,
      <<"a", "l", "e", "r", "t", "m", "a", "n", "a", "g", "e", "r", "_", "_", "l", "i", "s", "t", "_", "a", "l", "e", "r", "t", "s">>,
      <<>> }

\* ------------------------------------------------------------- InvokeTool
\* an error value; NoError is nil
Error(msg, detail) == [msg |-> msg, detail |-> detail]
NoError == Error("", <<>>)

\* one item of result.content
ContentItem(type, text, data) == [Type |-> type, Text |-> text, Data |-> data]

\* what Post and json.Unmarshal leave of a tools/call request: a transport
\* error, a body that does not parse, or the error object and content list
ToolResponse(err, error, content) == [err |-> err, Error |-> error, Content |-> content]

\* no request was answered yet
NoResponse == ToolResponse("none", <<>>, <<>>)

ToolResponses ==
    { ToolResponse("transport", <<>>, <<>>),
      ToolResponse("parse", <<>>, <<>>),
      ToolResponse("", <<"rate limit exceeded">>, <<>>),
      ToolResponse("", <<"partial failure">>, <<ContentItem("text", <<"1 alert">>, JNull)>>),
      ToolResponse("", <<>>, <<>>),
      ToolResponse("", <<>>, <<ContentItem("text", <<"2 alerts firing">>, JNull)>>),
      ToolResponse("", <<>>, <<ContentItem("text", <<"first">>, JNull),
                              ContentItem("text", <<"second">>, JNull)>>),
      ToolResponse("", <<>>, <<ContentItem("json", <<>>, JObject(<<>>))>>),
      ToolResponse("", <<>>, <<ContentItem("json", <<"unused">>, JNumber(7)),
                              ContentItem("text", <<"second">>, JNull)>>),
      ToolResponse("", <<>>, <<ContentItem("image", <<"caption">>, JNull)>>) }

InvokeResultIgnoresError(name, resp) ==
    IF resp.err = "transport"
    THEN [result |-> JNull, err |-> Error("failed to invoke tool", name)]
    ELSE IF resp.err = "parse"
    THEN [result |-> JNull, err |-> Error("failed to parse tool response", <<>>)]
    ELSE IF Len(resp.Content) > 0
    THEN IF resp.Content[1].Type = "text"
         THEN [result |-> JString(resp.Content[1].Text), err |-> NoError]
         ELSE [result |-> resp.Content[1].Data, err |-> NoError]
    ELSE [result |-> JNull, err |-> Error("tool returned no content", <<>>)]

\* what InvokeTool returns for a response: (result, err); JNull is nil
InvokeResult(name, resp) ==
    IF resp.err = "transport"
    THEN [result |-> JNull, err |-> Error("failed to invoke tool", name)]
    ELSE IF resp.err = "parse"
    THEN [result |-> JNull, err |-> Error("failed to parse tool response", <<>>)]
    ELSE IF resp.Error # <<>>
    THEN [result |-> JNull, err |-> Error("tool error", resp.Error)]
    ELSE IF Len(resp.Content) > 0
    THEN IF resp.Content[1].Type = "text"
         THEN [result |-> JString(resp.Content[1].Text), err |-> NoError]
         ELSE [result |-> resp.Content[1].Data, err |-> NoError]
    ELSE [result |-> JNull, err |-> Error("tool returned no content", <<>>)]

ActualNameTrimsAll(type, name) ==
    IF type # Grafana /\ HasPrefix(name, Exposed(type, <<>>))
    THEN TrimPrefix(TrimPrefix(name, Exposed(type, <<>>)), Exposed(type, <<>>))
    ELSE name

\* "Remove prefix if present for actual invocation"
ActualName(type, name) ==
    IF type # Grafana THEN TrimPrefix(name, Exposed(type, <<>>)) ELSE name

\* FormatToolResult(result), for nil, a string, an empty object, a number
FormatToolResult(v) ==
    CASE v.kind = "null" -> <<"No result returned">>
      [] v.kind = "string" -> v.text
      [] v.kind = "object" -> <<"{}">>
      [] OTHER -> v.text

\* ------------------------------------------------------------ executeTool
\* "len(toolName) > len(prefix) && toolName[:len(prefix)] == prefix"
MatchesPrefix(toolName, type) ==
    /\ Len(toolName) > Len(Exposed(type, <<>>))
    /\ SubSeq(toolName, 1, Len(Exposed(type, <<>>))) = Exposed(type, <<>>)

\* the clients the loop over instance.mcpClients may leave in client
PrefixedClients(clients, toolName) ==
    {type \in clients \ {Grafana} : MatchesPrefix(toolName, type)}

\* the chat handler calls executeTool(toolName, args): the client is chosen
ExecuteTool ==
    /\ ipc = "idle"
    /\ \E toolName \in ToolNames, args \in ArgMaps :
          LET found == PrefixedClients(mcpClients, toolName)
          IN IF found # {}
             THEN /\ \E type \in found :
                        ivk' = [via |-> "executeTool", client |-> type,
                                name |-> toolName, args |-> args, raw |-> <<>>,
                             origin |-> <<>>]
                  /\ ipc' = "invoke"
                  /\ UNCHANGED execRet
             ELSE IF Grafana \in mcpClients
             THEN /\ ivk' = [via |-> "executeTool", client |-> Grafana,
                             name |-> toolName, args |-> args, raw |-> <<>>,
                             origin |-> <<>>]
                  /\ ipc' = "invoke"
                  /\ UNCHANGED execRet
             ELSE /\ ivk' = [via |-> "executeTool", client |-> <<>>,
                             name |-> toolName, args |-> args, raw |-> <<>>,
                             origin |-> <<>>]
                  /\ ipc' = "done"
                  /\ execRet' = [result |-> <<>>,
                                 err |-> Error("Grafana MCP client not available", <<>>)]
    /\ UNCHANGED <<mcpClients, rewritten, wire, response, ret, notInvokeVars>>

\* a caller invokes, on the client of one provider, a tool under the name
\* that DiscoverTools of that client gave it
InvokeDiscovered ==
    /\ ipc = "idle"
    /\ \E type \in mcpClients, raw \in RawNames, args \in ArgMaps :
          ivk' = [via |-> "InvokeTool", client |-> type,
                  name |-> Namespaced(type, <<raw>>)[1], args |-> args, raw |-> raw,
                  origin |-> type]
    /\ ipc' = "invoke"
    /\ UNCHANGED <<mcpClients, rewritten, wire, response, ret, execRet, notInvokeVars>>

\* InvokeTool up to Post: the name is stripped, the arguments are normalized
\* and the tools/call request is sent
SendToolsCall ==
    /\ ipc = "invoke"
    /\ LET actualName == ActualName(ivk.client, ivk.name)
       IN \E normalized \in NormalizedMaps(ivk.client, ivk.args, Now) :
             /\ rewritten' = normalized
             /\ wire' = Append(wire, [to |-> ivk.client, name |-> actualName,
                                      arguments |-> WithStepSeconds(actualName, normalized)])
    /\ ipc' = "sent"
    /\ UNCHANGED <<mcpClients, ivk, response, ret, execRet, notInvokeVars>>

\* InvokeTool from the response on, and the return of executeTool
ReturnToolResult ==
    /\ ipc = "sent"
    /\ \E resp \in ToolResponses :
          LET r == InvokeResult(ivk.name, resp)
          IN /\ response' = resp
             /\ ret' = r
             /\ execRet' = IF ivk.via # "executeTool" THEN execRet
                           ELSE IF r.err # NoError THEN [result |-> <<>>, err |-> r.err]
                           ELSE [result |-> FormatToolResult(r.result), err |-> NoError]
    /\ ipc' = "done"
    /\ UNCHANGED <<mcpClients, ivk, rewritten, wire, notInvokeVars>>

\* the clients that connected when the instance was made, and no call yet
InvokeInit ==
    /\ TurnIdle /\ PageIdle /\ DiscoverIdle /\ RestIdle
    /\ mcpClients \in SUBSET ServerTypes \ {{}}
    /\ ipc = "idle"
    /\ ivk = [via |-> "", client |-> <<>>, name |-> <<>>, args |-> <<>>, raw |-> <<>>,
             origin |-> <<>>]
    /\ rewritten = <<>>
    /\ wire = <<>>
    /\ response = NoResponse
    /\ ret = [result |-> JNull, err |-> NoError]
    /\ execRet = [result |-> <<>>, err |-> NoError]

InvokeNext ==
    \/ ExecuteTool
    \/ InvokeDiscovered
    \/ SendToolsCall
    \/ ReturnToolResult

InvokeSpec == InvokeInit /\ [][InvokeNext]_vars

\* ================================================================== claims
Min(a, b) == IF a < b THEN a ELSE b

\* the last k elements of a sequence
LastK(seq, k) == SubSeq(seq, Len(seq) - k + 1, Len(seq))

Stored == View(heap, messages)

Range(f) == {f[i] : i \in DOMAIN f}

SetMax(S) == CHOOSE x \in S : \A y \in S : x >= y

\* C7: when AddMessage returns, the number of stored messages is at most a
\* positive maxMessages, the stored characters (counted, and as kept in
\* totalChars) are at most a positive maxCharacters unless exactly one message
\* is stored, and the message of this call is stored, as the newest.
C7_AddMessageWithinLimits ==
    \A t \in Threads :
        pc[t] = "add_unlock" =>
            /\ maxMessages > 0 => messages.len <= maxMessages
            /\ maxCharacters > 0 =>
                  \/ messages.len = 1
                  \/ SumChars(Stored) <= maxCharacters /\ totalChars <= maxCharacters
            /\ messages.len >= 1
            /\ Stored[messages.len] = arg[t]

\* an AddMessage that evicted down to one message which alone is over budget
C7_Witness ==
    \E t \in Threads :
        /\ pc[t] = "add_unlock"
        /\ maxMessages = 2 /\ maxCharacters = 2
        /\ Len(appended) = 3 /\ messages.len = 1
        /\ SumChars(Stored) = 3

\* C8: the stored messages are always a contiguous suffix, in insertion order,
\* of the messages appended since the last Clear; and when no call is under
\* way and the last min(N, maxMessages) of the N appended messages are within
\* the character budget, exactly those are stored.
C8_StoredIsSuffix ==
    /\ \E k \in 0..Len(appended) : Stored = LastK(appended, k)
    /\ mu.writer = 0 =>
          LET n == Len(appended)
              k == IF maxMessages > 0 THEN Min(n, maxMessages) ELSE n
          IN (maxCharacters <= 0 \/ SumChars(LastK(appended, k)) <= maxCharacters)
                 => Stored = LastK(appended, k)

\* three messages appended under a limit of two: the oldest is gone
C8_Witness ==
    /\ mu.writer = 0
    /\ maxMessages = 2 /\ maxCharacters <= 0
    /\ Len(appended) = 3
    /\ Stored = SubSeq(appended, 2, 3)
    /\ appended[1] # appended[2]

\* C9: a step that is not goroutine t's own write to its snapshot leaves the
\* content of that snapshot as it was (later AddMessage and Clear calls, and
\* other callers' writes, included), and a caller's write to its snapshot
\* leaves the stored messages, which is what later GetMessages calls copy,
\* as they were.
C9_SnapshotIndependent ==
    [][ /\ \A t \in Threads :
              (result'[t] = result[t] /\ ~ModifySnapshot(t))
                  => View(heap', result[t]) = View(heap, result[t])
        /\ (\E t \in Threads : ModifySnapshot(t))
              => View(heap', messages') = View(heap, messages)
      ]_vars

\* a caller has written to its snapshot and the memory holds the original
C9_Witness ==
    \E t \in Threads :
        /\ result[t].len > 0 /\ messages.len > 0
        /\ View(heap, result[t])[1].Content = "Modified"
        /\ Stored[1].Content # "Modified"
        /\ Len(appended) > result[t].len

\* C10: the slice GetMessages is about to return equals the stored sequence
\* as the last completed AddMessage or Clear left it; with no writer inside,
\* the stored sequence is that committed one; and when the appends since the
\* last Clear stay within both limits, every one of them is stored.
C10_SnapshotsAreCommitted ==
    /\ \A t \in Threads :
          pc[t] = "get_unlock" => View(heap, result[t]) = lastCommitted
    /\ mu.writer = 0 =>
          /\ Stored = lastCommitted
          /\ ( /\ maxMessages <= 0 \/ Len(appended) <= maxMessages
               /\ maxCharacters <= 0 \/ SumChars(appended) <= maxCharacters )
                 => Stored = appended

\* two goroutines inside GetMessages at once, after two appends
C10_Witness ==
    \E t, u \in Threads :
        /\ t # u
        /\ pc[t] = "get_unlock" /\ pc[u] = "get_copy"
        /\ Len(appended) = 2 /\ result[t].len = 2

\* ------------------------------------------------- the turn, as it was fed
\* the stream of the turn ended with io.EOF, or with another error
EndedEOF == received # <<>> /\ received[Len(received)].err = "EOF"
EndedInError == received # <<>> /\ received[Len(received)].err \notin {"", "EOF"}

\* the deltas the stream yielded, in arrival order
RECURSIVE DeltasOf(_)
DeltasOf(rs) ==
    IF rs = <<>> THEN <<>>
    ELSE (IF Head(rs).err = "" /\ Head(rs).response.Choices # <<>>
          THEN <<Head(rs).response.Choices[1]>>
          ELSE <<>>) \o DeltasOf(Tail(rs))

\* the non-empty content texts of a sequence of deltas, in order
RECURSIVE TextsOf(_)
TextsOf(ds) ==
    IF ds = <<>> THEN <<>>
    ELSE (IF Head(ds).Content # "" THEN <<Head(ds).Content>> ELSE <<>>)
         \o TextsOf(Tail(ds))

RECURSIVE Concat(_)
Concat(texts) == IF texts = <<>> THEN "" ELSE Head(texts) \o Concat(Tail(texts))

\* all tool-call fragments of a sequence of deltas, in arrival order
RECURSIVE FragmentsOf(_)
FragmentsOf(ds) ==
    IF ds = <<>> THEN <<>> ELSE Head(ds).ToolCalls \o FragmentsOf(Tail(ds))

\* the fragments that carry call index idx, in arrival order
FragmentsAt(idx) ==
    SelectSeq(FragmentsOf(DeltasOf(received)),
              LAMBDA f : f.HasIndex /\ f.Index = idx)

CallIndexes ==
    {f.Index : f \in {g \in Range(FragmentsOf(DeltasOf(received))) : g.HasIndex}}

\* the last non-empty value of a sequence of strings, "" if there is none
RECURSIVE LastNonEmpty(_)
LastNonEmpty(strs) ==
    IF strs = <<>> THEN ""
    ELSE IF strs[Len(strs)] # "" THEN strs[Len(strs)]
    ELSE LastNonEmpty(SubSeq(strs, 1, Len(strs) - 1))

RECURSIVE ConcatArgs(_)
ConcatArgs(frags) ==
    IF frags = <<>> THEN <<>> ELSE Head(frags).Arguments \o ConcatArgs(Tail(frags))

\* what the claim says the accumulator holds for call index idx
ExpectedCall(idx) ==
    LET fs == FragmentsAt(idx)
    IN [ID |-> LastNonEmpty([i \in 1..Len(fs) |-> fs[i].ID]),
        Type |-> LastNonEmpty([i \in 1..Len(fs) |-> fs[i].Type]),
        Name |-> LastNonEmpty([i \in 1..Len(fs) |-> fs[i].Name]),
        Arguments |-> ConcatArgs(fs)]

OfType(cs, type) == SelectSeq(cs, LAMBDA c : c.Type = type)

Positions(cs, type) == {i \in 1..Len(cs) : cs[i].Type = type}

ParsesAsObject(call) ==
    LET v == ParseValue(call.Arguments, 1)
    IN v.ok /\ v.pos = Len(call.Arguments) + 1 /\ v.val.kind = "object"

NamedAndParses(call) == call.Name # "" /\ Unmarshal(call.Arguments).err = ""

\* the tool chunk of an accumulated call whose text was parsed
ParsedChunk(call) == ToolChunk(call.Name, Unmarshal(call.Arguments).args)

\* the tool chunks of the named, parsed calls among indexes 0..n-1, in order
RECURSIVE ToolChunksFor(_)
ToolChunksFor(n) ==
    IF n = 0 THEN <<>>
    ELSE ToolChunksFor(n - 1)
         \o (IF (n - 1) \in CallIndexes /\ NamedAndParses(ExpectedCall(n - 1))
             THEN <<ParsedChunk(ExpectedCall(n - 1))>>
             ELSE <<>>)

NumIndexes == IF CallIndexes = {} THEN 0 ELSE 1 + SetMax(CallIndexes)

\* every tool chunk delivered is followed by a complete and a done chunk
ToolsBeforeCompleteAndDone ==
    \A i \in Positions(emitted, "tool") :
        /\ \E j \in Positions(emitted, "complete") : i < j
        /\ \E j \in Positions(emitted, "done") : i < j

\* the SSE events among the responses sent: all but the headers
Events == IF sent = <<>> THEN <<>> ELSE Tail(sent)

\* C1 (as claimed): once the producer of a turn has returned, the chunks it
\* delivered begin with the only start chunk and end with the only done
\* chunk, whether the stream ended with EOF or with another error.
C1_StartFirstDoneLast ==
    spc = "returned" =>
        /\ Positions(emitted, "start") = {1}
        /\ Positions(emitted, "done") = {Len(emitted)}

\* C2 (as claimed): once the producer has returned from a stream that ended
\* with a non-EOF error, it has emitted one error chunk for it and, after
\* that chunk, a complete chunk with the text accumulated so far.
C2_ErrorThenFinalize ==
    (spc = "returned" /\ EndedInError) =>
        /\ Cardinality(Positions(emitted, "error")) = 1
        /\ \E i \in Positions(emitted, "error"), j \in Positions(emitted, "complete") :
              /\ i < j
              /\ emitted[j].Message = fullContent

\* C3: the token chunks delivered so far are the non-empty content texts of
\* the deltas received, one chunk each, in arrival order (the last text still
\* in hand while its send is pending); and once the producer has returned
\* from a stream that ended with EOF, there is one complete chunk, carrying
\* the concatenation of those texts, and with no tool-call fragment in the
\* stream the delivered sequence is start, the tokens, complete, done.
C3_TokensInOrder ==
    LET texts == TextsOf(DeltasOf(received))
        tokens == [i \in 1..Len(texts) |-> TokenChunk(texts[i])]
        sentTokens == OfType(emitted, "token")
    IN /\ IF spc = "token"
          THEN sentTokens = SubSeq(tokens, 1, Len(tokens) - 1)
          ELSE spc # "idle" => sentTokens = tokens
       /\ (spc = "returned" /\ EndedEOF) =>
             /\ OfType(emitted, "complete") = <<CompleteChunk(Concat(texts))>>
             /\ FragmentsOf(DeltasOf(received)) = <<>> =>
                   emitted = <<StartChunk>> \o tokens
                             \o <<CompleteChunk(Concat(texts)), DoneChunk>>

\* the scenario of three token deltas and no tool call
C3_Witness ==
    /\ spc = "returned"
    /\ emitted = <<StartChunk, TokenChunk("Hel"), TokenChunk("lo"), TokenChunk("!"),
                   CompleteChunk("Hello!"), DoneChunk>>

\* C4 (as claimed): after EOF the accumulator holds, for every call index
\* that fragments arrived for, the last non-empty id, type and name and the
\* concatenation of the argument fragments; and once the producer has
\* returned, every call whose text parses as a JSON object has exactly one
\* tool chunk with its name and parsed arguments, before complete and done.
C4_ToolChunkPerParsedCall ==
    (spc \in {"tools", "done", "returned"} /\ EndedEOF) =>
        /\ \A idx \in CallIndexes : toolCalls[idx + 1] = ExpectedCall(idx)
        /\ spc = "returned" =>
              /\ \A idx \in CallIndexes :
                    ParsesAsObject(ExpectedCall(idx)) =>
                        Cardinality({i \in Positions(emitted, "tool") :
                                       emitted[i] = ParsedChunk(ExpectedCall(idx))}) = 1
              /\ ToolsBeforeCompleteAndDone

\* C4 (amended): as C4, for the calls whose accumulated name is not empty:
\* every call that has a name and whose text parses as a JSON object has
\* exactly one tool chunk with that name and the parsed arguments, before
\* complete and done; and the tool chunks delivered are those of the named
\* calls whose text json.Unmarshal accepts, in index order, and no other.
C4_ToolChunkPerNamedParsedCall ==
    (spc \in {"tools", "done", "returned"} /\ EndedEOF) =>
        /\ \A idx \in CallIndexes : toolCalls[idx + 1] = ExpectedCall(idx)
        /\ spc = "returned" =>
              /\ \A idx \in CallIndexes :
                    (ExpectedCall(idx).Name # "" /\ ParsesAsObject(ExpectedCall(idx))) =>
                        Cardinality({i \in Positions(emitted, "tool") :
                                       emitted[i] = ParsedChunk(ExpectedCall(idx))}) = 1
              /\ OfType(emitted, "tool") = ToolChunksFor(NumIndexes)
              /\ ToolsBeforeCompleteAndDone

\* the scenario of one call split over two fragments
C4_Witness ==
    /\ spc = "returned"
    /\ Len(FragmentsAt(0)) = 2
    /\ emitted[2] = ToolChunk("get_alerts", [k \in {<<"s">>} |-> JString(<<"c">>)])
    /\ emitted[Len(emitted) - 1].Type = "complete"
    /\ emitted[Len(emitted)].Type = "done"

C6_OneEventPerChunkInOrder ==
    /\ Len(forwarded) + Len(chunks) = Len(emitted)
    /\ chunks = SubSeq(emitted, Len(forwarded) + 1, Len(emitted))
    /\ \A i \in 1..Len(forwarded) :
          [forwarded[i] EXCEPT !.Result = NilResult] = emitted[i]
    /\ Len(Events) <= Len(forwarded)
    /\ \A i \in 1..Len(Events) :
          /\ Events[i].Body = <<"data: ", MarshalChunk(forwarded[i]), "\n\n">>
          /\ Events[i].Body[2]["type"] = emitted[i].Type
          /\ emitted[i].Message # "" => Events[i].Body[2]["message"] = emitted[i].Message
          /\ emitted[i].Tool # "" => Events[i].Body[2]["tool"] = emitted[i].Tool

\* a whole turn was sent: tokens, a tool chunk, complete and done
C6_Witness ==
    /\ hpc = "returned"
    /\ Len(Events) = Len(emitted)
    /\ Positions(emitted, "token") # {}
    /\ Positions(emitted, "tool") # {}
    /\ Events[Len(Events)].Body = <<"data: ", [k \in {"type"} |-> "done"], "\n\n">>

\* C19: ValidatePaginationParams returns an error exactly when count < 1 or
\* count > maxCount or offset < 0, and otherwise returns count and offset as
\* they were given, however large the offset.
C19_ValidateExactly ==
    pagePc \in {"validated", "done"} =>
        LET a == pageArgs
            invalid == a.count < 1 \/ a.count > a.maxCount \/ a.offset < 0
        IN /\ (validated.err # <<>>) <=> invalid
           /\ ~invalid => validated.count = a.count /\ validated.offset = a.offset

\* the largest offset there is was accepted and returned
C19_Witness ==
    /\ pagePc = "validated"
    /\ pageArgs.offset = MaxInt
    /\ validated = [count |-> pageArgs.count, offset |-> MaxInt, err |-> <<>>]

\* C20 (as claimed): for every slice, count >= 1 and offset >= 0,
\* PaginateResults returns the window S[offset : min(offset+count, len(S))]
\* (empty when offset >= len(S)) with total = len(S), the offset and the
\* requested count as given, count = len(data), and has_more exactly when
\* offset + count < len(S).
C20_PageIsWindow ==
    (pagePc = "paginated" /\ pageArgs.count >= 1 /\ pageArgs.offset >= 0) =>
        LET S == pageArgs.items
            total == Len(S)
            from == pageArgs.offset
            to == Min(pageArgs.offset + pageArgs.count, total)
            window == IF from >= total THEN <<>> ELSE SubSeq(S, from + 1, to)
        IN /\ ~paginated.panic
           /\ paginated.Data = window
           /\ paginated.Pagination =
                 [Total |-> total, Offset |-> from, Count |-> Len(window),
                  RequestedCount |-> pageArgs.count,
                  HasMore |-> (pageArgs.offset + pageArgs.count < total)]
           /\ from < total => Len(window) = Min(pageArgs.count, total - from)

\* the returns of DiscoverTools that gave a list and no error
Successes == {j \in 1..Len(returns) : returns[j].err = ""}

\* C11 (as claimed): while the calls of DiscoverTools on a client follow one
\* another, no tools/list request is sent by a call that starts after a call
\* has returned a list, whatever catalog that list is, and every such call
\* returns that same list without an error.
C11_OneRequestOnceDiscovered ==
    ~overlapped =>
        /\ \A i \in 1..Len(listRequests) :
              \A j \in Successes : j > listRequests[i].began
        /\ \A k \in 1..Len(returns) :
              \A j \in Successes :
                  j <= returns[k].began =>
                      /\ returns[k].err = ""
                      /\ ~returns[k].request
                      /\ returns[k].tools = returns[j].tools

\* C12 (as claimed): with callers of DiscoverTools running concurrently on a
\* client, at most one tools/list request is answered with a catalog of
\* tools, every caller that obtains tools obtains the same list, and every
\* list returned is whole: its length is the length of its array.
C12_OneRequestForConcurrentCallers ==
    /\ Cardinality({i \in 1..Len(listRequests) :
                       listRequests[i].err = "" /\ listRequests[i].catalog # <<>>}) <= 1
    /\ \A j, k \in Successes :
          (returns[j].tools.len > 0 /\ returns[k].tools.len > 0) =>
              returns[j].tools = returns[k].tools
    /\ \A j \in Successes : returns[j].tools.len = Len(returns[j].tools.ptr)

\* the tools/call request of the call in hand
Request == wire[Len(wire)]

\* InvokeTool was called directly with a discovered name and sent its request
InvokedDiscovered == ivk.via = "InvokeTool" /\ ipc \in {"sent", "done"}

\* C13: for a provider other than grafana the name exposed by discovery is the
\* provider's type, "__" and the raw name, and invoking it on that provider's
\* client sends exactly the raw name; for grafana both names are the raw name
C13_PrefixRoundTrip ==
    InvokedDiscovered =>
        /\ ivk.name = IF ivk.client = Grafana THEN ivk.raw
                      ELSE ivk.client \o <<"_", "_">> \o ivk.raw
        /\ Request.to = ivk.client
        /\ Request.name = ivk.raw

\* a raw name that itself begins with the provider's prefix was invoked
C13_Witness ==
    /\ InvokedDiscovered
    /\ ivk.client = Alertmanager
    /\ HasPrefix(ivk.raw, Alertmanager \o <<"_", "_">>)
    /\ Request.name = ivk.raw

\* executeTool chose a client, or returned for want of one
ToolDispatched == ivk.via = "executeTool" /\ ipc \in {"sent", "done"}

\* the connected providers other than grafana whose prefix the name starts with
StartsWithPrefixOf == {P \in mcpClients \ {Grafana} : HasPrefix(ivk.name, P \o <<"_", "_">>)}

\* C14: executeTool sends the call to a provider other than grafana exactly
\* when the tool name starts with that provider's prefix; a name with no
\* provider's prefix goes to grafana, and without a grafana client the call
\* returns an error and no request is sent
C14_DispatchByPrefix ==
    ToolDispatched =>
        /\ \A P \in mcpClients \ {Grafana} :
              (wire # <<>> /\ Request.to = P) <=> P \in StartsWithPrefixOf
        /\ StartsWithPrefixOf = {} =>
              IF Grafana \in mcpClients
              THEN wire # <<>> /\ Request.to = Grafana
              ELSE wire = <<>> /\ execRet.err # NoError

\* the request of the call in hand was sent
Sent == ipc \in {"sent", "done"} /\ wire # <<>>

UnitSeconds(unit) ==
    CASE unit = "s" -> 1 [] unit = "m" -> 60 [] unit = "h" -> 3600 [] unit = "d" -> 86400

\* v is a string now-<n><unit> or now+<n><unit>: n decimal digits, unit s, m, h or d
WellFormedRelative(v) ==
    /\ v.kind = "string"
    /\ Len(v.text) >= 6
    /\ SubSeq(v.text, 1, 3) = <<"n", "o", "w">>
    /\ v.text[4] \in {"-", "+"}
    /\ \A i \in 5..(Len(v.text) - 1) : IsDigit(v.text[i])
    /\ v.text[Len(v.text)] \in {"s", "m", "h", "d"}

\* the timestamp a well-formed relative expression stands for
ResolvedRelative(v) ==
    LET n == DecimalValue(SubSeq(v.text, 5, Len(v.text) - 1))
        d == n * UnitSeconds(v.text[Len(v.text)])
    IN JString(FormatRFC3339(IF v.text[4] = "-" THEN Now - d ELSE Now + d))

\* the keys of the arguments that no other key is rewritten onto
Alone(k) == \A j \in DOMAIN ivk.args : j # k => toCamelCase(j) # toCamelCase(k)

\* the values the loop over the arguments left for what was passed under key k
SentFor(k) == {rewritten[j] : j \in {k, toCamelCase(k)} \cap DOMAIN rewritten}

\* C15: a value now-<n><unit> or now+<n><unit> is replaced by the RFC3339
\* timestamp of the current instant minus or plus n units; every other value,
\* malformed relative expressions included, is passed through unchanged
C15_RelativeTimesResolved ==
    Sent =>
        \A k \in DOMAIN ivk.args :
            Alone(k) =>
                SentFor(k) = { IF WellFormedRelative(ivk.args[k])
                               THEN ResolvedRelative(ivk.args[k])
                               ELSE ivk.args[k] }

\* C16: for grafana every argument key k is in the normalized arguments as
\* toCamelCase(k), with no underscore left, whatever its value; for every
\* other provider the keys are unchanged
C16_KeysCamelCased ==
    Sent =>
        IF ivk.client = Grafana
        THEN /\ DOMAIN rewritten = {toCamelCase(k) : k \in DOMAIN ivk.args}
             /\ \A k \in DOMAIN rewritten : ~Contains(k, Underscore)
             /\ toCamelCase(<<"d", "a", "t", "a", "s", "o", "u", "r", "c", "e", "_", "u", "i", "d">>) = <<"d", "a", "t", "a", "s", "o", "u", "r", "c", "e", "U", "i", "d">>
             /\ toCamelCase(<<"t", "r", "a", "i", "l", "i", "n", "g", "_">>) = <<"t", "r", "a", "i", "l", "i", "n", "g">>
        ELSE DOMAIN rewritten = DOMAIN ivk.args

\* the tool name has both substrings
PrometheusRange(name) == Contains(name, Prometheus) /\ Contains(name, RangeWord)

\* the request has a stepSeconds that the loop over the arguments did not put
StepSecondsAdded == StepSeconds \in DOMAIN Request.arguments \ DOMAIN rewritten

\* C17 (as claimed): stepSeconds = 60 is added exactly when the tool name has
\* both "prometheus" and "range" and the arguments passed in have no
\* stepSeconds key; no argument is overwritten by it
C17_StepSecondsWhenNotPassed ==
    Sent =>
        /\ StepSecondsAdded <=>
              (PrometheusRange(Request.name) /\ StepSeconds \notin DOMAIN ivk.args)
        /\ StepSecondsAdded => Request.arguments[StepSeconds] = JNumber(60)
        /\ \A k \in DOMAIN rewritten : Request.arguments[k] = rewritten[k]
        /\ DOMAIN Request.arguments \subseteq DOMAIN rewritten \cup {StepSeconds}

\* C17 (amended): stepSeconds = 60 is added exactly when the tool name has
\* both "prometheus" and "range" and the arguments, after rules 1 and 2 have
\* rewritten their keys and values, have no stepSeconds key; every rewritten
\* argument is sent as it is and nothing else is added
C17_StepSecondsWhenAbsentAfterRewrite ==
    Sent =>
        /\ StepSecondsAdded <=>
              (PrometheusRange(Request.name) /\ StepSeconds \notin DOMAIN rewritten)
        /\ StepSecondsAdded => Request.arguments[StepSeconds] = JNumber(60)
        /\ \A k \in DOMAIN rewritten : Request.arguments[k] = rewritten[k]
        /\ DOMAIN Request.arguments \subseteq DOMAIN rewritten \cup {StepSeconds}

\* step_seconds was passed to a range query of grafana: it is sent as
\* stepSeconds and no default is added
C17_Witness ==
    /\ Sent
    /\ ivk.client = Grafana
    /\ PrometheusRange(Request.name)
    /\ StepSeconds \notin DOMAIN ivk.args
    /\ StepSeconds \in DOMAIN rewritten
    /\ Request.arguments[StepSeconds] = JNumber(30)

\* InvokeTool returned
Returned == ipc = "done" /\ response # NoResponse

\* the response is a failure: transport, parse, error object or no content
Failure(resp) == resp.err # "" \/ resp.Error # <<>> \/ resp.Content = <<>>

\* C18: InvokeTool returns an error on a transport or parse failure, on an
\* error object and on an empty content list; otherwise it returns the text of
\* the first content item when its type is "text" and its data when not; it
\* never returns a result together with an error
C18_ErrorOrFirstItem ==
    Returned =>
        /\ Failure(response) => ret.err # NoError
        /\ ~Failure(response) =>
              /\ ret.err = NoError
              /\ ret.result = IF response.Content[1].Type = "text"
                              THEN JString(response.Content[1].Text)
                              ELSE response.Content[1].Data
        /\ ret.err # NoError => ret.result = JNull

\* a response with an error object and content was answered by an error, and
\* a response of several items by its first
C18_Witness ==
    /\ Returned
    /\ \/ response.Error # <<>> /\ response.Content # <<>> /\ ret.err = Error("tool error", response.Error)
       \/ Len(response.Content) > 1 /\ ret.err = NoError /\ ret.result = response.Content[1].Data

\* the accumulated calls that have a name and whose text json.Unmarshal
\* accepts, by their position in toolCalls
ChunkedCalls ==
    {j \in 1..Len(toolCalls) : toolCalls[j].Name # "" /\ Unmarshal(toolCalls[j].Arguments).err = ""}

\* the k-th smallest member of a set of numbers
RECURSIVE Nth(_, _)
Nth(S, k) == IF k = 1 THEN SetMin(S) ELSE Nth(S \ {SetMin(S)}, k - 1)

\* C29: in the chunks a turn has delivered, every token chunk comes before
\* every tool chunk and every tool chunk before the complete chunk; the tool
\* chunks are those of accumulated calls in ascending call index, and each
\* is the chunk of a call whose accumulated name is not empty
C29_TokensThenToolsByIndex ==
    LET toolChunks == OfType(emitted, "tool")
    IN /\ \A i \in Positions(emitted, "token"), j \in Positions(emitted, "tool") : i < j
       /\ \A i \in Positions(emitted, "tool"), j \in Positions(emitted, "complete") : i < j
       /\ \A i \in Positions(emitted, "tool") : emitted[i].Tool # ""
       /\ Len(toolChunks) <= Cardinality(ChunkedCalls)
       /\ \A k \in 1..Len(toolChunks) :
             toolChunks[k] = ToolChunk(toolCalls[Nth(ChunkedCalls, k)].Name,
                                       Unmarshal(toolCalls[Nth(ChunkedCalls, k)].Arguments).args)

\* a token, then a call at index 2 only: the entries made for indexes 0 and
\* 1 gave no chunk, the call at index 2 gave the only tool chunk
C29_Witness ==
    /\ spc = "returned"
    /\ Len(toolCalls) = 3
    /\ toolCalls[1] = ZeroToolCall /\ toolCalls[2] = ZeroToolCall
    /\ Positions(emitted, "token") # {}
    /\ OfType(emitted, "tool") = <<ToolChunk("get_status", <<>>)>>
    /\ OfType(emitted, "error") = <<>>

\* the call indexes whose accumulated call has a name
NamedIndexes == {idx \in CallIndexes : ExpectedCall(idx).Name # ""}

\* C30: once the producer has returned from a stream that ended with EOF,
\* every named call whose accumulated text does not parse as a JSON object
\* has given one error chunk and no tool chunk, every other named call has
\* given its tool chunk, and complete and done were delivered after them
C30_ParseFailureIsOneErrorChunk ==
    (spc = "returned" /\ EndedEOF) =>
        LET failing == {idx \in NamedIndexes : ~ParsesAsObject(ExpectedCall(idx))}
        IN /\ Len(OfType(emitted, "error")) = Cardinality(failing)
           /\ Len(OfType(emitted, "tool")) = Cardinality(NamedIndexes \ failing)
           /\ \A idx \in failing :
                 \A i \in Positions(emitted, "tool") : emitted[i].Tool # ExpectedCall(idx).Name
           /\ \A idx \in NamedIndexes \ failing :
                 \E i \in Positions(emitted, "tool") :
                     emitted[i] = ParsedChunk(ExpectedCall(idx))
           /\ Len(emitted) >= 2
           /\ emitted[Len(emitted) - 1].Type = "complete"
           /\ emitted[Len(emitted)].Type = "done"

\* C26: once the handler has returned after a failed send, and so reads the
\* channel no more, the goroutine of StreamChat eventually returns and the
\* channel is closed
C26_ProducerTerminates == (hpc = "failed") ~> (spc = "returned" /\ closed)

\* a streaming turn ended well: the producer sent every chunk up to done and
\* the handler sent them all on and returned
StreamedTurn ==
    /\ hpc = "returned" /\ spc = "returned"
    /\ emitted # <<>> /\ emitted[Len(emitted)] = DoneChunk
    /\ forwarded # <<>> /\ forwarded[Len(forwarded)] = DoneChunk
    /\ Len(sent) = 1 + Len(emitted)

\* RunChat has returned a response to handleChat
ChatTurn == hpc = "respond"

\* the final text of the turn
FinalText ==
    IF ChatTurn THEN fullResponse
    ELSE LET tokens == OfType(emitted, "token")
         IN Concat([i \in 1..Len(tokens) |-> tokens[i].Message])

\* C27 (as claimed): after a turn that ended well the memory of the session,
\* empty before, holds two messages: the user message of the turn, then the
\* assistant message with the final text
C27_MemoryGainsUserAndAssistant ==
    (StreamedTurn \/ ChatTurn) =>
        /\ Len(appended) = 2
        /\ appended[1].Role = "user" /\ appended[1].Content \in UserMessages
        /\ View(heap, messages) = <<appended[1], Message("assistant", FinalText)>>

\* C27 (amended): after a turn that ended well AddMessage has been called
\* twice on the memory of the session, with the user message and then with
\* the assistant message of the final text; the memory, empty before, holds
\* both, unless the two are longer than the character limit together: then
\* the user message was trimmed and the assistant message alone is left
C27_MemoryGainsTurnWithinLimits ==
    (StreamedTurn \/ ChatTurn) =>
        /\ Len(appended) = 2
        /\ appended[1].Role = "user" /\ appended[1].Content \in UserMessages
        /\ appended[2] = Message("assistant", FinalText)
        /\ View(heap, messages) =
              IF Len(appended[1].Content) + Len(FinalText) > DefaultMaxCharacters
              THEN <<appended[2]>>
              ELSE appended

\* a streamed turn of three tokens after a short message, kept whole
C27_Witness ==
    /\ StreamedTurn
    /\ View(heap, messages) = <<Message("user", "hi"), Message("assistant", "Hello!")>>

\* ================================================= buildContextualMessage
\* a Go string as the pieces it is made of: the empty string has none
Str(s) == IF s = "" THEN <<>> ELSE <<s>>

NewLine == "\n"

\* strings.Join(parts, sep), each part a sequence of pieces
RECURSIVE Join(_, _)
Join(parts, sep) ==
    IF parts = <<>> THEN <<>>
    ELSE IF Len(parts) = 1 THEN parts[1]
    ELSE parts[1] \o <<sep>> \o Join(Tail(parts), sep)

\* m[k] on a map[string]string: the zero value for a missing key, any map
\* being a function on its keys and the nil map the one with no keys
MapIndex(m, k) == IF k \in DOMAIN m THEN m[k] ELSE ""

MapLen(m) == Cardinality(DOMAIN m)

\* fmt.Sprintf("%v", tags) on a []string: [a b]
SprintTags(tags) ==
    <<"[">> \o Join([i \in 1..Len(tags) |-> Str(tags[i])], " ") \o <<"]">>

\* *DashboardContext: <<>> is nil
NilContext == <<>>

DashboardContext(uid, name, folder, tags, timeRange) ==
    [UID |-> uid, Name |-> name, Folder |-> folder, Tags |-> tags,
     TimeRange |-> timeRange]

\* the mutant: the context lines are not followed by a blank line
buildContextualMessageNoBlankLine(message, ctx) ==
    IF ctx = NilContext THEN Str(message)
    ELSE LET p0 == << <<"[Dashboard Context]">> >>
             p1 == IF ctx.Name # "" THEN Append(p0, <<"Name: ", ctx.Name>>) ELSE p0
             p2 == IF ctx.UID # "" THEN Append(p1, <<"UID: ", ctx.UID>>) ELSE p1
             p3 == IF ctx.Folder # ""
                   THEN Append(p2, <<"Folder: ", ctx.Folder>>) ELSE p2
             p4 == IF Len(ctx.Tags) > 0
                   THEN Append(p3, <<"Tags: ">> \o SprintTags(ctx.Tags)) ELSE p3
             from == MapIndex(ctx.TimeRange, "from")
             to == MapIndex(ctx.TimeRange, "to")
             contextParts ==
                 IF MapLen(ctx.TimeRange) > 0 /\ from # "" /\ to # ""
                 THEN Append(p4, <<"Time Range: ", from, " to ", to>>) ELSE p4
         IN IF Len(contextParts) > 1
            THEN Join(contextParts, NewLine) \o <<NewLine>> \o Str(message)
            ELSE Str(message)

\* the string returned, as its pieces; every "\n" written is a piece of its own
buildContextualMessage(message, ctx) ==
    IF ctx = NilContext THEN Str(message)
    ELSE LET p0 == << <<"[Dashboard Context]">> >>
             p1 == IF ctx.Name # "" THEN Append(p0, <<"Name: ", ctx.Name>>) ELSE p0
             p2 == IF ctx.UID # "" THEN Append(p1, <<"UID: ", ctx.UID>>) ELSE p1
             p3 == IF ctx.Folder # ""
                   THEN Append(p2, <<"Folder: ", ctx.Folder>>) ELSE p2
             p4 == IF Len(ctx.Tags) > 0
                   THEN Append(p3, <<"Tags: ">> \o SprintTags(ctx.Tags)) ELSE p3
             from == MapIndex(ctx.TimeRange, "from")
             to == MapIndex(ctx.TimeRange, "to")
             contextParts ==
                 IF MapLen(ctx.TimeRange) > 0 /\ from # "" /\ to # ""
                 THEN Append(p4, <<"Time Range: ", from, " to ", to>>) ELSE p4
         IN IF Len(contextParts) > 1
            THEN Join(contextParts, NewLine) \o <<NewLine, NewLine>> \o Str(message)
            ELSE Str(message)

\* the inputs: messages, field values, tag lists and time_range maps
ContextMessages == {"", "why is cpu high?"}

TagLists == {<<>>, <<"prod">>, <<"prod", "k8s">>, <<"">>}

TimeRanges ==
    {<<>>,
     [k \in {"from"} |-> "now-6h"],
     [k \in {"to"} |-> "now"],
     [k \in {"from", "to"} |-> IF k = "from" THEN "now-6h" ELSE "now"],
     [k \in {"from", "to"} |-> IF k = "from" THEN "" ELSE "now"],
     [k \in {"from", "to", "raw"} |-> IF k = "from" THEN "now-6h"
                                      ELSE IF k = "to" THEN "" ELSE "6h"]}

DashboardContexts ==
    {NilContext} \cup
    {DashboardContext(uid, name, folder, tags, timeRange) :
        uid \in {"", "abc123"}, name \in {"", "Node Overview"},
        folder \in {"", "Ops"}, tags \in TagLists, timeRange \in TimeRanges}

ContextInit ==
    /\ TurnIdle /\ PageIdle /\ DiscoverIdle /\ InvokeIdle
    /\ ServerIdle /\ InstanceIdle /\ LaterIdle
    /\ userMessage \in ContextMessages
    /\ dashboard \in DashboardContexts
    /\ contextual = <<>>
    /\ ctxPc = "request"

\* handleChat and handleChatStream: contextualMessage := buildContextualMessage(...)
BuildContextualMessage ==
    /\ ctxPc = "request"
    /\ contextual' = buildContextualMessage(userMessage, dashboard)
    /\ ctxPc' = "built"
    /\ UNCHANGED <<userMessage, dashboard, notContextVars>>

ContextNext == BuildContextualMessage

ContextSpec == ContextInit /\ [][ContextNext]_vars

\* ---- what the message reads as
\* the pieces of a text, cut at every "\n": its lines
RECURSIVE LinesOf(_)
LinesOf(text) ==
    IF \A i \in 1..Len(text) : text[i] # NewLine THEN <<text>>
    ELSE LET i == CHOOSE i \in 1..Len(text) :
                      text[i] = NewLine /\ \A j \in 1..(i - 1) : text[j] # NewLine
         IN <<SubSeq(text, 1, i - 1)>> \o LinesOf(SubSeq(text, i + 1, Len(text)))

\* a time range with both ends given
HasTimeRange(ctx) ==
    /\ "from" \in DOMAIN ctx.TimeRange /\ ctx.TimeRange["from"] # ""
    /\ "to" \in DOMAIN ctx.TimeRange /\ ctx.TimeRange["to"] # ""

\* no name, uid, folder, tags or full time range
EmptyContext(ctx) ==
    /\ ctx.Name = "" /\ ctx.UID = "" /\ ctx.Folder = ""
    /\ ctx.Tags = <<>>
    /\ ~HasTimeRange(ctx)

\* the labels of the fields that are not empty, in the order of the block
FieldLabels(ctx) ==
    SelectSeq(<<"Name: ", "UID: ", "Folder: ", "Tags: ", "Time Range: ">>,
              LAMBDA l : \/ l = "Name: " /\ ctx.Name # ""
                         \/ l = "UID: " /\ ctx.UID # ""
                         \/ l = "Folder: " /\ ctx.Folder # ""
                         \/ l = "Tags: " /\ ctx.Tags # <<>>
                         \/ l = "Time Range: " /\ HasTimeRange(ctx))

\* the value a field line shows after its label
FieldValue(ctx, l) ==
    IF l = "Name: " THEN <<ctx.Name>>
    ELSE IF l = "UID: " THEN <<ctx.UID>>
    ELSE IF l = "Folder: " THEN <<ctx.Folder>>
    ELSE IF l = "Tags: " THEN SprintTags(ctx.Tags)
    ELSE <<ctx.TimeRange["from"], " to ", ctx.TimeRange["to"]>>

AlertmanagerServer == "alertmanager-mcp-server"
GenesysServer == "genesys-cloud-mcp-server"

\* the calls a server takes in one run
MaxCalls == 3

\* RegisterTools of each server, in the order of registration
RegisteredTools(server) ==
    IF server = AlertmanagerServer
    THEN <<"get_status", "get_alerts", "get_alert_groups", "get_silences",
           "post_silence", "delete_silence", "post_alerts", "get_receivers">>
    ELSE <<"search_queues", "query_queue_volumes", "sample_conversations_by_queue",
           "search_voice_conversations", "oauth_clients">>

\* the handlers whose first statement is the call of enforceRateLimit
ChecksRateLimit(tool) ==
    tool \in {"get_status", "get_alerts", "get_alert_groups", "get_silences",
              "post_silence", "delete_silence", "post_alerts", "get_receivers"}

\* the handlers that take count and offset
Paginated(tool) == tool \in {"get_alerts", "get_alert_groups", "get_silences"}

\* the handlers that can turn their other arguments down before the upstream call
ChecksArguments(tool) ==
    tool \in {"post_silence", "delete_silence", "post_alerts",
              "query_queue_volumes", "sample_conversations_by_queue",
              "search_voice_conversations"}

\* the default and the maximum page of a paginated tool, as the environment
\* of the server sets them
PageConfig(tool) ==
    IF tool = "get_alerts" THEN [default |-> 2, max |-> 3]
    ELSE IF tool = "get_alert_groups" THEN [default |-> 1, max |-> 2]
    ELSE [default |-> 2, max |-> 4]

\* args.Count and args.Offset after the defaults and the decoding of arguments
ArgCount(tool, arguments) ==
    IF "count" \in DOMAIN arguments THEN arguments["count"]
    ELSE PageConfig(tool).default

ArgOffset(arguments) ==
    IF "offset" \in DOMAIN arguments THEN arguments["offset"] ELSE 0

\* *rate.Limiter: <<>> is nil; tokens is what the bucket holds now
NilLimiter == <<>>

\* the mutant: a limiter is made whenever the rate is positive
newRateLimiterIgnoresBurst(config) ==
    IF config.RPS <= 0
    THEN NilLimiter
    ELSE [limit |-> config.RPS, burst |-> config.Burst, tokens |-> config.Burst]

\* rate.NewLimiter starts with a full bucket
newRateLimiter(config) ==
    IF config.RPS <= 0 \/ config.Burst <= 0
    THEN NilLimiter
    ELSE [limit |-> config.RPS, burst |-> config.Burst, tokens |-> config.Burst]

\* *mcp.CallToolResult: text is nil for no result at all
NilToolResult == [isError |-> FALSE, text |-> <<>>, page |-> <<>>]
NewToolResultError(text) == [isError |-> TRUE, text |-> text, page |-> <<>>]
NewToolResultText(text, page) == [isError |-> FALSE, text |-> text, page |-> page]

\* the mutant: the answer of Allow is not looked at
enforceRateLimitIgnoresAllow(l) ==
    IF l = NilLimiter
    THEN [result |-> NilToolResult, allowed |-> TRUE, limiter |-> l]
    ELSE IF l.tokens < 1
    THEN [result |-> NilToolResult, allowed |-> FALSE, limiter |-> l]
    ELSE [result |-> NilToolResult, allowed |-> TRUE,
          limiter |-> [l EXCEPT !.tokens = @ - 1]]

\* the result to return, nil to go on; allowed is what Allow() said (TRUE
\* without a limiter), limiter the bucket after the call
enforceRateLimit(l) ==
    IF l = NilLimiter
    THEN [result |-> NilToolResult, allowed |-> TRUE, limiter |-> l]
    ELSE IF l.tokens < 1
    THEN [result |-> NewToolResultError(<<"rate limit exceeded">>),
          allowed |-> FALSE, limiter |-> l]
    ELSE [result |-> NilToolResult, allowed |-> TRUE,
          limiter |-> [l EXCEPT !.tokens = @ - 1]]

\* the settings of the environment, the arguments of a call, what upstream lists
RateLimits == [RPS : {-1, 0, 5}, Burst : {-1, 0, 1, 2}]

PageArguments ==
    {<<>>} \cup [{"count"} -> {0, 1, 5}] \cup [{"offset"} -> {-1, 1}]
           \cup [{"count", "offset"} -> {-1, 2}]

Listings == {<<>>, <<"a">>, <<"a", "b", "a">>}

ServerInit ==
    /\ TurnIdle /\ PageIdle /\ DiscoverIdle /\ InvokeIdle
    /\ ContextIdle /\ InstanceIdle /\ LaterIdle
    /\ serverName \in {AlertmanagerServer, GenesysServer}
    /\ rateLimit \in RateLimits
    /\ limiter = IF serverName = AlertmanagerServer THEN newRateLimiter(rateLimit)
                 ELSE NilLimiter
    /\ invocation = [id |-> 0, tool |-> "", arguments |-> <<>>, valid |-> TRUE]
    /\ callPc = "idle"
    /\ toolResult = NilToolResult
    /\ callsLeft = MaxCalls
    /\ upstream = <<>>
    /\ decisions = <<>>

\* time passes: the bucket gains a token, up to its burst
Tick ==
    /\ limiter # NilLimiter
    /\ limiter.tokens < limiter.burst
    /\ limiter' = [limiter EXCEPT !.tokens = @ + 1]
    /\ UNCHANGED <<serverName, rateLimit, invocation, callPc, toolResult,
                   callsLeft, upstream, decisions, notServerVars>>

\* the server dispatches a tools/call to the handler registered under its name
CallTool ==
    /\ callPc \in {"idle", "returned"}
    /\ callsLeft > 0
    /\ \E i \in DOMAIN RegisteredTools(serverName) :
           LET tool == RegisteredTools(serverName)[i]
           IN \E arguments \in IF Paginated(tool) THEN PageArguments ELSE {<<>>},
                 valid \in IF ChecksArguments(tool) THEN BOOLEAN ELSE {TRUE} :
                  invocation' = [id |-> MaxCalls - callsLeft + 1, tool |-> tool,
                                 arguments |-> arguments, valid |-> valid]
    /\ callPc' = "entered"
    /\ callsLeft' = callsLeft - 1
    /\ toolResult' = NilToolResult
    /\ UNCHANGED <<serverName, rateLimit, limiter, upstream, decisions,
                   notServerVars>>

\* if result := s.enforceRateLimit(); result != nil { return result, nil }
EnforceRateLimit ==
    /\ callPc = "entered"
    /\ ChecksRateLimit(invocation.tool)
    /\ LET e == enforceRateLimit(limiter)
       IN /\ limiter' = e.limiter
          /\ decisions' = Append(decisions, [id |-> invocation.id,
                                             allowed |-> e.allowed])
          /\ IF e.result # NilToolResult
             THEN toolResult' = e.result /\ callPc' = "returned"
             ELSE toolResult' = toolResult /\ callPc' = "admitted"
    /\ UNCHANGED <<serverName, rateLimit, invocation, callsLeft, upstream,
                   notServerVars>>

\* the handler is past its first statement
InHandler ==
    \/ callPc = "admitted"
    \/ callPc = "entered" /\ ~ChecksRateLimit(invocation.tool)

\* what the handler's own checks of the arguments say: an error text, or <<>>
ArgumentError ==
    IF Paginated(invocation.tool)
    THEN LET v == ValidatePaginationParams(
                      ArgCount(invocation.tool, invocation.arguments),
                      ArgOffset(invocation.arguments),
                      PageConfig(invocation.tool).max)
         IN IF v.err # <<>> THEN <<"error: ">> \o v.err ELSE <<>>
    ELSE IF ~invocation.valid THEN <<"invalid arguments">>
    ELSE <<>>

\* the handler turns the arguments down and returns
RejectArguments ==
    /\ InHandler
    /\ ArgumentError # <<>>
    /\ toolResult' = NewToolResultError(ArgumentError)
    /\ callPc' = "returned"
    /\ UNCHANGED <<serverName, rateLimit, limiter, invocation, callsLeft,
                   upstream, decisions, notServerVars>>

\* the call of s.client fails, and the handler returns its error
UpstreamFails ==
    /\ InHandler
    /\ ArgumentError = <<>>
    /\ upstream' = Append(upstream, invocation.id)
    /\ toolResult' = NewToolResultError(<<"error: ", "connection refused">>)
    /\ callPc' = "returned"
    /\ UNCHANGED <<serverName, rateLimit, limiter, invocation, callsLeft,
                   decisions, notServerVars>>

\* the call of s.client answers, and the handler returns the answer, a
\* paginated tool the page asked for
UpstreamAnswers ==
    /\ InHandler
    /\ ArgumentError = <<>>
    /\ upstream' = Append(upstream, invocation.id)
    /\ \E items \in Listings :
           toolResult' =
               IF Paginated(invocation.tool)
               THEN NewToolResultText(
                        <<"page">>,
                        PaginateResults(items,
                                        ArgCount(invocation.tool, invocation.arguments),
                                        ArgOffset(invocation.arguments)))
               ELSE NewToolResultText(<<"data">>, <<>>)
    /\ callPc' = "returned"
    /\ UNCHANGED <<serverName, rateLimit, limiter, invocation, callsLeft,
                   decisions, notServerVars>>

ServerNext ==
    \/ Tick
    \/ CallTool
    \/ EnforceRateLimit
    \/ RejectArguments
    \/ UpstreamFails
    \/ UpstreamAnswers

ServerSpec == ServerInit /\ [][ServerNext]_vars

\* ---- what the servers let through
\* the call with this id reached s.client
ReachedUpstream(id) == \E i \in DOMAIN upstream : upstream[i] = id

\* enforceRateLimit was run for the call with this id, and what it decided
Checked(id) == \E i \in DOMAIN decisions : decisions[i].id = id
Admitted(id) == \E i \in DOMAIN decisions : decisions[i].id = id /\ decisions[i].allowed
Denied(id) == \E i \in DOMAIN decisions : decisions[i].id = id /\ ~decisions[i].allowed

\* the call in hand is of a paginated tool, and its count or offset is out
\* of range
FailsValidation ==
    /\ invocation.id > 0
    /\ Paginated(invocation.tool)
    /\ LET count == ArgCount(invocation.tool, invocation.arguments)
           offset == ArgOffset(invocation.arguments)
       IN \/ count < 1
          \/ count > PageConfig(invocation.tool).max
          \/ offset < 0

\* C21: a get_alerts, get_alert_groups or get_silences call whose count or
\* offset fails validation never reaches the Alertmanager client, and what it
\* returns is an error result
C21_InvalidPageNeverReachesUpstream ==
    FailsValidation =>
        /\ ~ReachedUpstream(invocation.id)
        /\ callPc = "returned" => toolResult.isError

\* an admitted call was turned down for its page arguments after an earlier
\* call had been served from upstream
C21_Witness ==
    /\ FailsValidation
    /\ callPc = "returned"
    /\ Admitted(invocation.id)
    /\ toolResult.isError /\ toolResult.text[1] = "error: "
    /\ upstream # <<>>

C23_NonPositiveConfigDisablesLimiter ==
    (rateLimit.RPS <= 0 \/ rateLimit.Burst <= 0) =>
        /\ limiter = NilLimiter
        /\ \A i \in DOMAIN decisions : decisions[i].allowed
        /\ callPc = "returned" => toolResult.text # <<"rate limit exceeded">>

\* an Alertmanager server with a positive rate and a burst of zero has run
\* enforceRateLimit for every one of its calls, back to back
C23_Witness ==
    /\ serverName = AlertmanagerServer
    /\ rateLimit.RPS > 0 /\ rateLimit.Burst = 0
    /\ Len(decisions) = MaxCalls
    /\ Len(upstream) = MaxCalls

\* C24: every registered handler, Alertmanager's and Genesys's, runs the
\* rate-limit check first: a call past its first step has been checked, and a
\* call that reached upstream was admitted
C24_EveryHandlerChecksFirst ==
    /\ (invocation.id > 0 /\ callPc # "entered") => Checked(invocation.id)
    /\ \A i \in DOMAIN upstream : Admitted(upstream[i])

\* ========================================================= createInstance
\* what a configured provider does when asked: GET /health, then tools/list
ListOutcomes ==
    {[err |-> TRUE, names |-> <<>>]} \cup
    {[err |-> FALSE, names |-> c] : c \in Catalogs}

ProviderStates ==
    {[healthy |-> FALSE, tools |-> [err |-> TRUE, names |-> <<>>]]} \cup
    {[healthy |-> TRUE, tools |-> t] : t \in ListOutcomes}

\* the settings of the plugin context and the world around it: whether
\* LoadSettings parses the JSON, whether Validate finds its required keys, whether
\* an API key is there, whether NewLLMClient succeeds; and, for every server
\* type with a URL (GetMCPServers), the provider behind it
Environments ==
    UNION {[loads : BOOLEAN, valid : BOOLEAN, apiKey : BOOLEAN, llm : BOOLEAN,
            providers : [S -> ProviderStates]] : S \in SUBSET ServerTypes}

\* the error createInstance returns before it connects to any provider, "" for
\* none; Validate also wants at least one MCP server URL
SettingsError(e) ==
    IF ~e.loads THEN "failed to load settings"
    ELSE IF ~e.valid \/ DOMAIN e.providers = {} THEN "invalid settings"
    ELSE IF ~e.apiKey THEN "Grafana API key not found in settings or secrets"
    ELSE IF ~e.llm THEN "failed to create LLM client"
    ELSE ""

NoInstance(err) == [instance |-> FALSE, err |-> err]

InstanceInit ==
    /\ TurnIdle /\ PageIdle /\ DiscoverIdle /\ ContextIdle /\ ServerIdle
    /\ LaterIdle
    /\ ipc = "idle"
    /\ ivk = [via |-> "", client |-> <<>>, name |-> <<>>, args |-> <<>>, raw |-> <<>>,
             origin |-> <<>>]
    /\ rewritten = <<>>
    /\ wire = <<>>
    /\ response = [err |-> "none", Error |-> <<>>, Content |-> <<>>]
    /\ ret = [result |-> [kind |-> "null", text |-> <<>>, members |-> <<>>],
              err |-> [msg |-> "", detail |-> <<>>]]
    /\ execRet = [result |-> <<>>, err |-> [msg |-> "", detail |-> <<>>]]
    /\ env \in Environments
    /\ mcpClients = {}
    /\ remaining = {}
    /\ cpc = "start"
    /\ created = NoInstance("")
    /\ mcpTypes = <<>>
    /\ managerTools = {}

\* LoadSettings, Validate, the API key or NewLLMClient fails: return nil, err
RejectSettings ==
    /\ cpc = "start"
    /\ SettingsError(env) # ""
    /\ created' = NoInstance(SettingsError(env))
    /\ cpc' = "done"
    /\ UNCHANGED <<env, remaining, mcpClients, mcpTypes, managerTools,
                   notInstanceVars>>

\* mcpClients := make(map...); mcpTypes := []string{}; range GetMCPServers()
BeginConnect ==
    /\ cpc = "start"
    /\ SettingsError(env) = ""
    /\ mcpClients' = {}
    /\ mcpTypes' = <<>>
    /\ remaining' = DOMAIN env.providers
    /\ cpc' = "connect"
    /\ UNCHANGED <<env, created, managerTools, notInstanceVars>>

\* client.Connect fails for the next server of the map: continue
ConnectFails ==
    /\ cpc = "connect"
    /\ \E type \in remaining :
           /\ ~env.providers[type].healthy
           /\ remaining' = remaining \ {type}
    /\ UNCHANGED <<env, cpc, created, mcpClients, mcpTypes, managerTools,
                   notInstanceVars>>

\* the mutant: a provider whose discovery failed is kept
DiscoverFailsKeepsClient ==
    /\ cpc = "connect"
    /\ \E type \in remaining :
           /\ env.providers[type].healthy
           /\ env.providers[type].tools.err
           /\ remaining' = remaining \ {type}
           /\ mcpClients' = mcpClients \cup {type}
    /\ UNCHANGED <<env, cpc, created, mcpTypes, managerTools, notInstanceVars>>

\* client.DiscoverTools fails for a server that connected: continue
DiscoverFails ==
    /\ cpc = "connect"
    /\ \E type \in remaining :
           /\ env.providers[type].healthy
           /\ env.providers[type].tools.err
           /\ remaining' = remaining \ {type}
    /\ UNCHANGED <<env, cpc, created, mcpClients, mcpTypes, managerTools,
                   notInstanceVars>>

\* both steps passed: mcpClients[serverType] = client, and its type is noted
AddClient ==
    /\ cpc = "connect"
    /\ \E type \in remaining :
           /\ env.providers[type].healthy
           /\ ~env.providers[type].tools.err
           /\ remaining' = remaining \ {type}
           /\ mcpClients' = mcpClients \cup {type}
           /\ mcpTypes' = Append(mcpTypes, type)
    /\ UNCHANGED <<env, cpc, created, managerTools, notInstanceVars>>

\* len(mcpClients) == 0 after the loop
NoClients ==
    /\ cpc = "connect"
    /\ remaining = {}
    /\ mcpClients = {}
    /\ created' = NoInstance("failed to connect to any MCP servers")
    /\ cpc' = "done"
    /\ UNCHANGED <<env, remaining, mcpClients, mcpTypes, managerTools,
                   notInstanceVars>>

\* convertMCPToolsToOpenAI: the tools of every client of the map, each with
\* its origin, as a set (the slice has them in the order the map is ranged
\* over). again(type) is what DiscoverTools returns now: the cached catalog
\* if it has entries, else the answer to a new tools/list request
ConvertedTools(clients, again) ==
    UNION {LET first == env.providers[type].tools.names
               now == IF Len(first) > 0 THEN [err |-> FALSE, names |-> first]
                      ELSE again[type]
           IN IF now.err THEN {}
              ELSE {[client |-> type, name |-> Namespaced(type, now.names)[i]] :
                        i \in 1..Len(now.names)} : type \in clients}

\* agent.NewManager (which never fails) and return &Instance{...}, nil
NewManager ==
    /\ cpc = "connect"
    /\ remaining = {}
    /\ mcpClients # {}
    /\ \E again \in [mcpClients -> ListOutcomes] :
           managerTools' = ConvertedTools(mcpClients, again)
    /\ created' = [instance |-> TRUE, err |-> ""]
    /\ cpc' = "done"
    /\ UNCHANGED <<env, remaining, mcpClients, mcpTypes, notInstanceVars>>

InstanceNext ==
    \/ RejectSettings
    \/ BeginConnect
    \/ ConnectFails
    \/ DiscoverFails
    \/ AddClient
    \/ NoClients
    \/ NewManager

InstanceSpec == InstanceInit /\ [][InstanceNext]_vars

\* ---- what creation comes to
\* the configured providers that pass the health check and tool discovery
Usable ==
    {type \in DOMAIN env.providers :
        env.providers[type].healthy /\ ~env.providers[type].tools.err}

\* no provider that fails a step is in the client map, and every tool of the
\* manager comes from a client of the map
OnlyUsableProvidersServe ==
    /\ mcpClients \subseteq Usable
    /\ \A tool \in managerTools : tool.client \in mcpClients

\* C25 (as claimed): creation succeeds exactly when some configured provider
\* passes the health check and tool discovery; a provider that fails either
\* step is left out of the client map and contributes no tools
C25_CreatedIffProviderUsable ==
    cpc = "done" =>
        /\ created.instance <=> Usable # {}
        /\ OnlyUsableProvidersServe

\* C25 (amended): when the settings load and validate, the API key is there
\* and the LLM client is created, creation succeeds exactly when some
\* configured provider passes both steps, and the client map is then exactly
\* those providers; in every case a provider that fails a step is left out
\* of the map and contributes no tools
C25_CreatedIffProviderUsableGivenSettings ==
    cpc = "done" =>
        /\ (env.loads /\ env.valid /\ env.apiKey /\ env.llm) =>
               /\ created.instance <=> Usable # {}
               /\ created.instance => mcpClients = Usable
        /\ created.instance => (env.loads /\ env.valid /\ env.apiKey /\ env.llm)
        /\ OnlyUsableProvidersServe

\* an instance was created from three configured providers: one failed the
\* health check, one failed discovery, one serves tools
C25_Witness ==
    /\ cpc = "done"
    /\ created.instance
    /\ Cardinality(DOMAIN env.providers) = 3
    /\ \E type \in DOMAIN env.providers : ~env.providers[type].healthy
    /\ \E type \in DOMAIN env.providers :
           env.providers[type].healthy /\ env.providers[type].tools.err
    /\ Cardinality(mcpClients) = 1
    /\ managerTools # {}

\* ================================================== the claims of a whole turn
\* the text of the token chunks the handler took, in order
ForwardedText ==
    LET tokens == OfType(forwarded, "token")
    IN Concat([i \in 1..Len(tokens) |-> tokens[i].Message])

\* the handler has returned: after a response, or after a send that failed
TurnFinished == hpc \in {"returned", "failed"}

\* C31: a turn makes one completion request of the provider and no more,
\* however many tool calls the pass asks for; the request holds the system
\* message and the user message only; a tool result is on the tool chunk
\* sent on and nowhere else: not in a request, not in the session memory
C31_OneRequestPerTurn ==
    /\ Len(requests) <= 1
    /\ appended # <<>> => Len(requests) = 1
    /\ \A i \in DOMAIN requests :
           requests[i].Messages =
               <<Message("system", SystemPrompt), Message("user", UserMessage)>>
    /\ \A i \in DOMAIN forwarded :
           forwarded[i].Type # "tool" => forwarded[i].Result = NilResult
    /\ \A i \in DOMAIN appended :
           \/ i = 1 /\ appended[i] = Message("user", UserMessage)
           \/ i = 2 /\ appended[i] = Message("assistant", ForwardedText)

\* a turn that ran two tools, one of them with a result, and ended well
C31_Witness ==
    /\ hpc = "returned" /\ spc = "returned"
    /\ Len(OfType(forwarded, "tool")) = 2
    /\ \E i \in DOMAIN forwarded :
           forwarded[i].Type = "tool" /\ forwarded[i].Result = <<"2 alerts firing">>
    /\ Len(requests) = 1
    /\ Len(appended) = 2

\* C36: a finished turn has stored its user message and one assistant message
\* after it, or neither: however the turn ended
C36_UserNeverWithoutAssistant ==
    TurnFinished =>
        \/ appended = <<>>
        \/ /\ Len(appended) = 2
           /\ appended[1].Role = "user"
           /\ appended[2].Role = "assistant"

\* C32: at most ChanCap (100) chunks are ever pending between the producer
\* and the consumer; the pending chunks are exactly the chunks produced and
\* not yet taken, in order, so none is dropped; and while ChanCap are pending
\* the producer produces nothing
C32_AtMostChanCapPending ==
    /\ [](/\ Len(chunks) <= ChanCap
          /\ Len(forwarded) + Len(chunks) = Len(emitted)
          /\ chunks = SubSeq(emitted, Len(forwarded) + 1, Len(emitted)))
    /\ [][Len(chunks) = ChanCap => emitted' = emitted]_vars

\* the buffer is full, and the producer has more to send
C32_Witness ==
    /\ Len(chunks) = ChanCap
    /\ spc \notin {"idle", "returned"}
    /\ ~closed

\* C34: whenever no AddMessage or Clear is under way the counter is the sum
\* of the content lengths of the messages stored; Clear leaves the list empty
\* and the counter 0 and the limits as they were, which is the state of a
\* memory just created with these limits
C34_CounterIsSumOfStored ==
    /\ [](mu.writer = 0 => totalChars = SumChars(View(heap, messages)))
    /\ [][(\E t \in Threads : pc[t] = "clear_reset" /\ pc'[t] = "idle") =>
              /\ messages' = EmptySlice
              /\ View(heap', messages') = <<>>
              /\ totalChars' = 0
              /\ maxMessages' = maxMessages
              /\ maxCharacters' = maxCharacters]_vars

\* a memory that was filled, cleared and appended to again
C34_Witness ==
    /\ mu.writer = 0
    /\ \E i \in DOMAIN heap : \E j \in DOMAIN heap[i] : heap[i][j].Content = "a"
    /\ appended = <<Message("assistant", "bbb")>>
    /\ View(heap, messages) = appended
    /\ totalChars = 3

\* ============================================== paging through a whole slice
\* the client keeps count, starts at offset 0 and asks for the next page, at
\* offset + count, while has_more is true
WalkInit ==
    /\ TurnIdle /\ PageIdle /\ DiscoverIdle /\ InvokeIdle /\ RestIdleButWalk
    /\ walk \in [items : ItemSlices, count : 1..MaxInt, offset : {0}]
    /\ windows = <<>>
    /\ walkPc = "page"

\* one call: PaginateResults(items, count, offset), and the client's next step
NextPage ==
    /\ walkPc = "page"
    /\ LET page == PaginateResults(walk.items, walk.count, walk.offset)
       IN /\ windows' = Append(windows, page)
          /\ IF page.panic
             THEN walkPc' = "panicked" /\ walk' = walk
             ELSE IF page.Pagination.HasMore
             THEN /\ walkPc' = "page"
                  /\ walk' = [walk EXCEPT !.offset = WrapInt(walk.offset + walk.count)]
             ELSE walkPc' = "done" /\ walk' = walk
    /\ UNCHANGED notWalkVars

WalkNext == NextPage

\* the client goes on as long as it has a call to make
WalkSpec == WalkInit /\ [][WalkNext]_vars /\ WF_vars(WalkNext)

\* the data windows of the pages, one after the other
RECURSIVE Windows(_)
Windows(pages) ==
    IF pages = <<>> THEN <<>> ELSE Head(pages).Data \o Windows(Tail(pages))

\* the page holds the last item of the slice
HoldsLastItem(page) ==
    /\ page.Pagination.Count > 0
    /\ page.Pagination.Offset + page.Pagination.Count = Len(walk.items)

\* C40: paging with a fixed count >= 1 from offset 0 comes to an end; no call
\* panics; the windows returned, one after the other, are the slice; and
\* has_more is false on the page that holds the last item, or on the one
\* empty page of an empty slice, and on no other
C40_PagingReturnsTheSlice ==
    /\ <>(walkPc = "done")
    /\ [](walkPc # "panicked")
    /\ [](\A i \in DOMAIN windows :
              ~windows[i].panic =>
                  ~windows[i].Pagination.HasMore <=>
                      \/ HoldsLastItem(windows[i])
                      \/ walk.items = <<>> /\ i = 1 /\ windows[i].Data = <<>>)
    /\ [](walkPc = "done" => Windows(windows) = walk.items)

\* a slice of three items was paged through two at a time
C40_Witness ==
    /\ walkPc = "done"
    /\ Len(walk.items) = 3 /\ walk.count = 2
    /\ Len(windows) = 2
    /\ Len(windows[2].Data) = 1

\* ===================================== Manager.sessionMemories, concurrently
\* the session ids of the requests, and the message of each goroutine's turn
SessionIDs == {"session-a", "session-b"}

TurnMessage(t) == "question " \o ToString(t)

\* NewConversationMemory(): its heap, m.messages and m.totalChars
NewConversationMemory == [heap |-> <<>>, slice |-> EmptySlice, total |-> 0]

\* m.sessionMemories[sessionID] = mem
MapStore(map, key, value) ==
    [k \in DOMAIN map \cup {key} |-> IF k = key THEN value ELSE map[k]]

\* the messages a memory holds
Held(mem) == View(memories[mem].heap, memories[mem].slice)

\* the mutant: getOrCreateMemory and ClearSession do not wait for m.mu
CanLockManagerUnguarded == TRUE

\* m.mu.Lock() goes through when no goroutine holds m.mu
CanLockManager == managerMu = 0

SessionsInit ==
    /\ TurnIdle /\ PageIdle /\ DiscoverIdle /\ InvokeIdle
    /\ ContextIdle /\ ServerIdle /\ InstanceIdle /\ WalkIdle /\ PluginIdle
    /\ sessionMemories = <<>>
    /\ memories = <<>>
    /\ managerMu = 0
    /\ tpc = [t \in Threads |-> "idle"]
    /\ turn = [t \in Threads |-> [op |-> "", sessionID |-> "", message |-> "",
                                  mem |-> 0, ok |-> FALSE]]
    /\ rendered = [t \in Threads |-> <<>>]
    /\ turnsLeft = MaxOps
    /\ handed = {}

\* a goroutine enters RunChatStream ("turn"), AddAssistantResponse
\* ("respond") or ClearSession ("clear") for a session id
BeginCall(t) ==
    /\ tpc[t] \in {"idle", "built", "done"}
    /\ turnsLeft > 0
    /\ \E op \in {"turn", "respond", "clear"}, id \in SessionIDs :
           turn' = [turn EXCEPT ![t] = [op |-> op, sessionID |-> id,
                                        message |-> TurnMessage(t),
                                        mem |-> 0, ok |-> FALSE]]
    /\ tpc' = [tpc EXCEPT ![t] = "lock"]
    /\ turnsLeft' = turnsLeft - 1
    /\ UNCHANGED <<sessionMemories, memories, managerMu, rendered, handed,
                   notSessionVars>>

\* m.mu.Lock(), in getOrCreateMemory and in ClearSession
LockManager(t) ==
    /\ tpc[t] = "lock"
    /\ CanLockManager
    /\ managerMu' = t
    /\ tpc' = [tpc EXCEPT ![t] = IF turn[t].op = "clear" THEN "clear" ELSE "lookup"]
    /\ UNCHANGED <<sessionMemories, memories, turn, rendered, turnsLeft, handed,
                   notSessionVars>>

\* mem, ok := m.sessionMemories[sessionID]
LookupMemory(t) ==
    /\ tpc[t] = "lookup"
    /\ LET ok == turn[t].sessionID \in DOMAIN sessionMemories
       IN /\ turn' = [turn EXCEPT ![t].ok = ok,
                                  ![t].mem = IF ok
                                             THEN sessionMemories[turn[t].sessionID]
                                             ELSE 0]
          /\ tpc' = [tpc EXCEPT ![t] = IF ok THEN "return" ELSE "create"]
    /\ UNCHANGED <<sessionMemories, memories, managerMu, rendered, turnsLeft,
                   handed, notSessionVars>>

\* mem := NewConversationMemory(); m.sessionMemories[sessionID] = mem
CreateMemory(t) ==
    /\ tpc[t] = "create"
    /\ memories' = Append(memories, NewConversationMemory)
    /\ sessionMemories' = MapStore(sessionMemories, turn[t].sessionID,
                                   Len(memories) + 1)
    /\ turn' = [turn EXCEPT ![t].mem = Len(memories) + 1]
    /\ tpc' = [tpc EXCEPT ![t] = "return"]
    /\ UNCHANGED <<managerMu, rendered, turnsLeft, handed, notSessionVars>>

\* return mem, and the deferred m.mu.Unlock()
ReturnMemory(t) ==
    /\ tpc[t] = "return"
    /\ managerMu' = IF managerMu = t THEN 0 ELSE managerMu
    /\ handed' = handed \cup {<<turn[t].sessionID, turn[t].mem>>}
    /\ tpc' = [tpc EXCEPT ![t] = IF turn[t].op = "turn" THEN "add_user"
                                 ELSE "add_assistant"]
    /\ UNCHANGED <<sessionMemories, memories, turn, rendered, turnsLeft,
                   notSessionVars>>

\* memory.AddMessage(role, content), under the lock of the memory
MemoryAddMessage(mem, role, content) ==
    LET m == memories[mem]
        a == AddMessageDone(m.heap, m.slice, m.total, Message(role, content))
    IN memories' = [memories EXCEPT ![mem] = a]

\* RunChatStream: memory.AddMessage("user", userMessage)
AddUserMessage(t) ==
    /\ tpc[t] = "add_user"
    /\ MemoryAddMessage(turn[t].mem, "user", turn[t].message)
    /\ tpc' = [tpc EXCEPT ![t] = "build"]
    /\ UNCHANGED <<sessionMemories, managerMu, turn, rendered, turnsLeft, handed,
                   notSessionVars>>

\* RunChatStream: messages := m.buildMessages(memory), a GetMessages snapshot
BuildMessages(t) ==
    /\ tpc[t] = "build"
    /\ rendered' = [rendered EXCEPT ![t] = buildMessages(Held(turn[t].mem))]
    /\ tpc' = [tpc EXCEPT ![t] = "built"]
    /\ UNCHANGED <<sessionMemories, memories, managerMu, turn, turnsLeft, handed,
                   notSessionVars>>

\* AddAssistantResponse: memory.AddMessage("assistant", response)
AddAssistantMessage(t) ==
    /\ tpc[t] = "add_assistant"
    /\ MemoryAddMessage(turn[t].mem, "assistant", "answer")
    /\ tpc' = [tpc EXCEPT ![t] = "done"]
    /\ UNCHANGED <<sessionMemories, managerMu, turn, rendered, turnsLeft, handed,
                   notSessionVars>>

\* ClearSession under m.mu: mem.Clear() if the session is there
ClearSession(t) ==
    /\ tpc[t] = "clear"
    /\ IF turn[t].sessionID \in DOMAIN sessionMemories
       THEN memories' = [memories EXCEPT
                            ![sessionMemories[turn[t].sessionID]].slice = EmptySlice,
                            ![sessionMemories[turn[t].sessionID]].total = 0]
       ELSE memories' = memories
    /\ managerMu' = IF managerMu = t THEN 0 ELSE managerMu
    /\ tpc' = [tpc EXCEPT ![t] = "done"]
    /\ UNCHANGED <<sessionMemories, turn, rendered, turnsLeft, handed,
                   notSessionVars>>

SessionsNext ==
    \E t \in Threads :
        \/ BeginCall(t)
        \/ LockManager(t)
        \/ LookupMemory(t)
        \/ CreateMemory(t)
        \/ ReturnMemory(t)
        \/ AddUserMessage(t)
        \/ BuildMessages(t)
        \/ AddAssistantMessage(t)
        \/ ClearSession(t)

SessionsSpec == SessionsInit /\ [][SessionsNext]_vars

\* C33: getOrCreateMemory never returns two memories for one session id, and
\* what it returned for an id is what the map holds for it from then on; no
\* two ids share a memory and no memory is outside the map; no step removes
\* or replaces an entry of the map; ClearSession empties the memory of a
\* session that is there and creates nothing for one that is not
C33_OneMemoryPerSession ==
    /\ [](/\ \A p, q \in handed : p[1] = q[1] => p[2] = q[2]
          /\ \A p \in handed :
                 p[1] \in DOMAIN sessionMemories /\ sessionMemories[p[1]] = p[2]
          /\ Len(memories) = Cardinality(DOMAIN sessionMemories)
          /\ \A a, b \in DOMAIN sessionMemories :
                 sessionMemories[a] = sessionMemories[b] => a = b)
    /\ [][/\ DOMAIN sessionMemories \subseteq DOMAIN sessionMemories'
          /\ \A id \in DOMAIN sessionMemories :
                 sessionMemories'[id] = sessionMemories[id]
          /\ \A t \in Threads :
                 (tpc[t] = "clear" /\ tpc'[t] = "done") =>
                     /\ sessionMemories' = sessionMemories
                     /\ Len(memories') = Len(memories)
                     /\ turn[t].sessionID \in DOMAIN sessionMemories =>
                            View(memories'[sessionMemories[turn[t].sessionID]].heap,
                                 memories'[sessionMemories[turn[t].sessionID]].slice)
                                = <<>>]_vars

\* two goroutines have rendered a turn on the one memory of the same session:
\* one of them created it, the other found it in the map
C33_Witness ==
    /\ \E t, u \in Threads :
           /\ t # u
           /\ turn[t].sessionID = turn[u].sessionID
           /\ turn[t].mem = turn[u].mem /\ turn[t].mem > 0
           /\ turn[t].ok # turn[u].ok
           /\ tpc[t] = "built" /\ tpc[u] = "built"
    /\ Len(memories) = 1

\* C35: the messages a turn renders for the model start with the one system
\* message and end with the user message of that turn
C35_RenderedEndsWithOwnMessage ==
    \A t \in Threads :
        tpc[t] = "built" =>
            /\ rendered[t][1] = Message("system", SystemPrompt)
            /\ \A i \in 2..Len(rendered[t]) : rendered[t][i].Role # "system"
            /\ rendered[t][Len(rendered[t])] = Message("user", turn[t].message)

\* =============================================== Plugin.getInstance, concurrently
\* pluginCtx.OrgID of the requests
OrgIDs == {1, 2}

NoLookup == [instanceID |-> 0, instance |-> 0, exists |-> FALSE]

NoResult == [instance |-> 0, err |-> ""]

\* p.mu.RLock() goes through when no goroutine holds the write lock
CanRLockPlugin == pluginMu.writer = 0

\* p.mu.Lock() goes through when no goroutine holds the lock either way
CanLockPlugin == pluginMu.writer = 0 /\ pluginMu.readers = {}

\* the mutant: the second look at the map under the write lock finds nothing
RecheckSkipped(instanceID) == FALSE

\* if instance, exists = p.instances[instanceID]; exists
Recheck(instanceID) == instanceID \in DOMAIN instances

PluginInit ==
    /\ TurnIdle /\ PageIdle /\ DiscoverIdle /\ InvokeIdle
    /\ ContextIdle /\ ServerIdle /\ InstanceIdle /\ WalkIdle /\ SessionsIdle
    /\ instances = <<>>
    /\ pluginMu = [writer |-> 0, readers |-> {}]
    /\ gpc = [t \in Threads |-> "idle"]
    /\ lookup = [t \in Threads |-> NoLookup]
    /\ got = [t \in Threads |-> NoResult]
    /\ getsLeft = MaxOps
    /\ stores = <<>>

\* a request enters getInstance: instanceID := pluginCtx.OrgID
BeginGetInstance(t) ==
    /\ gpc[t] \in {"idle", "returned"}
    /\ getsLeft > 0
    /\ \E org \in OrgIDs :
           lookup' = [lookup EXCEPT ![t] = [NoLookup EXCEPT !.instanceID = org]]
    /\ got' = [got EXCEPT ![t] = NoResult]
    /\ gpc' = [gpc EXCEPT ![t] = "rlock"]
    /\ getsLeft' = getsLeft - 1
    /\ UNCHANGED <<instances, pluginMu, stores, notPluginVars>>

\* p.mu.RLock()
RLockPlugin(t) ==
    /\ gpc[t] = "rlock"
    /\ CanRLockPlugin
    /\ pluginMu' = [pluginMu EXCEPT !.readers = @ \cup {t}]
    /\ gpc' = [gpc EXCEPT ![t] = "read"]
    /\ UNCHANGED <<instances, lookup, got, getsLeft, stores, notPluginVars>>

\* instance, exists := p.instances[instanceID]
ReadInstance(t) ==
    /\ gpc[t] = "read"
    /\ LET id == lookup[t].instanceID
           exists == id \in DOMAIN instances
       IN lookup' = [lookup EXCEPT ![t].exists = exists,
                                   ![t].instance = IF exists THEN instances[id] ELSE 0]
    /\ gpc' = [gpc EXCEPT ![t] = "runlock"]
    /\ UNCHANGED <<instances, pluginMu, got, getsLeft, stores, notPluginVars>>

\* p.mu.RUnlock(); if exists { return instance, nil }
RUnlockPlugin(t) ==
    /\ gpc[t] = "runlock"
    /\ pluginMu' = [pluginMu EXCEPT !.readers = @ \ {t}]
    /\ IF lookup[t].exists
       THEN /\ got' = [got EXCEPT ![t] = [instance |-> lookup[t].instance, err |-> ""]]
            /\ gpc' = [gpc EXCEPT ![t] = "returned"]
       ELSE /\ got' = got
            /\ gpc' = [gpc EXCEPT ![t] = "lock"]
    /\ UNCHANGED <<instances, lookup, getsLeft, stores, notPluginVars>>

\* p.mu.Lock(); defer p.mu.Unlock()
LockPlugin(t) ==
    /\ gpc[t] = "lock"
    /\ CanLockPlugin
    /\ pluginMu' = [pluginMu EXCEPT !.writer = t]
    /\ gpc' = [gpc EXCEPT ![t] = "recheck"]
    /\ UNCHANGED <<instances, lookup, got, getsLeft, stores, notPluginVars>>

\* the deferred p.mu.Unlock() of the goroutine that returns
UnlockPlugin(t) ==
    pluginMu' = [pluginMu EXCEPT !.writer = IF @ = t THEN 0 ELSE @]

\* the double-check after acquiring the write lock
DoubleCheck(t) ==
    /\ gpc[t] = "recheck"
    /\ IF Recheck(lookup[t].instanceID)
       THEN /\ got' = [got EXCEPT ![t] = [instance |-> instances[lookup[t].instanceID],
                                          err |-> ""]]
            /\ gpc' = [gpc EXCEPT ![t] = "returned"]
            /\ UnlockPlugin(t)
       ELSE /\ got' = got
            /\ gpc' = [gpc EXCEPT ![t] = "create"]
            /\ pluginMu' = pluginMu
    /\ UNCHANGED <<instances, lookup, getsLeft, stores, notPluginVars>>

\* p.createInstance fails: return nil, err
CreateInstanceFails(t) ==
    /\ gpc[t] = "create"
    /\ got' = [got EXCEPT ![t] = [instance |-> 0, err |-> "create instance failed"]]
    /\ gpc' = [gpc EXCEPT ![t] = "returned"]
    /\ UnlockPlugin(t)
    /\ UNCHANGED <<instances, lookup, getsLeft, stores, notPluginVars>>

\* p.createInstance succeeds: p.instances[instanceID] = instance
StoreInstance(t) ==
    /\ gpc[t] = "create"
    /\ LET instance == Len(stores) + 1
       IN /\ instances' = MapStore(instances, lookup[t].instanceID, instance)
          /\ stores' = Append(stores, [instanceID |-> lookup[t].instanceID,
                                       instance |-> instance])
          /\ got' = [got EXCEPT ![t] = [instance |-> instance, err |-> ""]]
    /\ gpc' = [gpc EXCEPT ![t] = "returned"]
    /\ UnlockPlugin(t)
    /\ UNCHANGED <<lookup, getsLeft, notPluginVars>>

PluginNext ==
    \E t \in Threads :
        \/ BeginGetInstance(t)
        \/ RLockPlugin(t)
        \/ ReadInstance(t)
        \/ RUnlockPlugin(t)
        \/ LockPlugin(t)
        \/ DoubleCheck(t)
        \/ CreateInstanceFails(t)
        \/ StoreInstance(t)

PluginSpec == PluginInit /\ [][PluginNext]_vars

\* C38: whatever the interleaving, at most one instance is ever stored for an
\* org id and every request that succeeds returns the instance the map holds
\* for its id; a creation that fails leaves the map as it was, without the id,
\* and a request that finds its id missing under the write lock creates
C38_OneInstancePerOrg ==
    /\ [](/\ \A i, j \in DOMAIN stores :
                 stores[i].instanceID = stores[j].instanceID => i = j
          /\ \A t \in Threads :
                 (gpc[t] = "returned" /\ got[t].err = "") =>
                     /\ got[t].instance > 0
                     /\ lookup[t].instanceID \in DOMAIN instances
                     /\ instances[lookup[t].instanceID] = got[t].instance)
    /\ [][\A t \in Threads :
              /\ (gpc[t] = "create" /\ gpc'[t] = "returned" /\ got'[t].err # "") =>
                     /\ instances' = instances
                     /\ stores' = stores
                     /\ lookup[t].instanceID \notin DOMAIN instances'
              /\ (/\ gpc[t] = "recheck" /\ gpc'[t] # "recheck"
                  /\ lookup[t].instanceID \notin DOMAIN instances) =>
                     gpc'[t] = "create"]_vars

\* two first requests for one org id both missed the instance under the read
\* lock and both returned the one instance that was stored
C38_Witness ==
    \E t, u \in Threads :
        /\ t # u
        /\ lookup[t].instanceID = lookup[u].instanceID
        /\ ~lookup[t].exists /\ ~lookup[u].exists
        /\ gpc[t] = "returned" /\ gpc[u] = "returned"
        /\ got[t].err = "" /\ got[u].err = ""
        /\ got[t].instance = got[u].instance
        /\ Len(stores) = 1

\* ======================================= executeTool on the names of the catalog
\* the model calls a tool of the union catalog: the name is the one that
\* DiscoverTools of the provider it came from gave it, and executeTool
\* chooses the client from that name
ExecuteExposed ==
    /\ ipc = "idle"
    /\ \E origin \in mcpClients, raw \in RawNames, args \in ArgMaps :
          LET toolName == Namespaced(origin, <<raw>>)[1]
              found == PrefixedClients(mcpClients, toolName)
              chosen == IF found # {} THEN found
                        ELSE IF Grafana \in mcpClients THEN {Grafana}
                        ELSE {<<>>}
          IN /\ \E type \in chosen :
                   ivk' = [via |-> "executeTool", client |-> type,
                           name |-> toolName, args |-> args, raw |-> raw,
                           origin |-> origin]
             /\ IF chosen # {<<>>}
                THEN /\ ipc' = "invoke"
                     /\ UNCHANGED execRet
                ELSE /\ ipc' = "done"
                     /\ execRet' = [result |-> <<>>,
                                    err |-> Error("Grafana MCP client not available", <<>>)]
    /\ UNCHANGED <<mcpClients, rewritten, wire, response, ret, notInvokeVars>>

DispatchNext ==
    \/ ExecuteExposed
    \/ SendToolsCall
    \/ ReturnToolResult

DispatchSpec == InvokeInit /\ [][DispatchNext]_vars

\* executeTool has dealt with a name of the catalog
ExposedDispatched ==
    ivk.via = "executeTool" /\ ivk.origin # <<>> /\ ipc \in {"sent", "done"}

\* C37: a call of a name of the union catalog goes to the provider the name
\* was discovered from, under the raw name that provider announced
C37_ExposedGoesToItsProvider ==
    ExposedDispatched =>
        /\ Len(wire) = 1
        /\ wire[1].to = ivk.origin
        /\ wire[1].name = ivk.raw

\* C39: normalizeArguments gives one output for one input, whatever the order
\* in which the input map is ranged over, and the output has one entry for
\* each entry of the input, and one more when stepSeconds is added
C39_NormalizedOnceAndWhole ==
    Sent =>
        /\ NormalizedMaps(ivk.client, ivk.args, Now) = {rewritten}
        /\ Cardinality(DOMAIN rewritten) = Cardinality(DOMAIN ivk.args)
        /\ Cardinality(DOMAIN Request.arguments) =
               Cardinality(DOMAIN ivk.args) + (IF StepSecondsAdded THEN 1 ELSE 0)

====
